---- MODULE Spec2Model ----
(***************************************************************************)
(* photovault: the photo and album request handlers with their cache-aside *)
(* layer (django.core.cache), the relational entity store and the S3       *)
(* object store client.  Every handler is one atomic action in the         *)
(* sequential specifications; the concurrent specifications split a        *)
(* handler at its store and cache round-trips.                             *)
(***************************************************************************)
EXTENDS Integers, Sequences, FiniteSets, TLC

(***************************************************************************)
(* Bounds of the model.                                                    *)
(***************************************************************************)
MaxPhotos == 2
MaxAlbums == 2
MaxBlobs == 2
MaxSteps == 3

(***************************************************************************)
(* Program constants.  One time unit is five minutes.                      *)
(***************************************************************************)
CACHE_TTL == 1
CACHE_TTL_LONG == 12
INVALIDATED_PAGES == 10
MAX_UPLOAD_SIZE == 1
PAGE_SIZE == 1

VARIABLES
    photos,       \* entity store: Photo rows, id -> row
    nextPhotoId,  \* entity store: next Photo primary key
    albums,       \* entity store: Album rows, id -> row
    nextAlbumId,  \* entity store: next Album primary key
    m2m,          \* entity store: rows of the Album.photos many-to-many table
    albumPhotos,  \* entity store: rows of the AlbumPhoto table
    blobs,        \* object store: the keys that hold an object
    nextBlob,     \* object store client: next uuid4 token
    cache,        \* cache backend: key -> [value, ttl]
    cacheUp,      \* cache backend reachable
    flagged,      \* ids of the photos an admin force-deleted
    nsteps,       \* steps taken so far (requests and passages of time)
    procs,        \* the requests in flight of the concurrent specifications
    expired,      \* the keys that lost an entry to its timeout
    resp          \* the response of the request served last

vars == <<photos, nextPhotoId, albums, nextAlbumId, m2m, albumPhotos, blobs,
          nextBlob, cache, cacheUp, flagged, nsteps, procs, expired, resp>>

storeVars == <<photos, nextPhotoId, albums, nextAlbumId, m2m, albumPhotos>>
env == <<cacheUp, procs, expired>>

(***************************************************************************)
(* Actors.                                                                 *)
(***************************************************************************)
Anon == "anon"
Users == {"u1", "u2", "admin"}
Actors == Users \cup {Anon}

Role(u) == IF u = "admin" THEN "admin" ELSE "user"
IsAuthenticated(a) == a \in Users

SAFE_METHODS == {"GET", "HEAD", "OPTIONS"}
Methods == SAFE_METHODS \cup {"POST", "PUT", "PATCH", "DELETE"}
Visibilities == {"public", "private"}
Titles == {"t0", "t1"}

(***************************************************************************)
(* core/permissions.py                                                     *)
(***************************************************************************)
HasPermission(a, method) ==
    IF method \in SAFE_METHODS THEN TRUE ELSE IsAuthenticated(a)

\* Mutant of HasObjectPermission: a read is allowed whatever the visibility.
HasObjectPermissionAnyRead(a, method, obj) ==
    IF IsAuthenticated(a) /\ Role(a) = "admin" THEN TRUE
    ELSE IF method \in SAFE_METHODS THEN TRUE
    ELSE IsAuthenticated(a) /\ obj.owner = a

\* Mutant of HasObjectPermission: ownership is not asked of a writer.
HasObjectPermissionAnyWriter(a, method, obj) ==
    \/ IsAuthenticated(a)
    \/ method \in SAFE_METHODS /\ obj.visibility = "public"

HasObjectPermission(a, method, obj) ==
    IF IsAuthenticated(a) /\ Role(a) = "admin" THEN TRUE
    ELSE IF method \in SAFE_METHODS /\ obj.visibility = "public" THEN TRUE
    ELSE IF method \in SAFE_METHODS /\ obj.visibility = "private"
         THEN IsAuthenticated(a) /\ obj.owner = a
    ELSE IsAuthenticated(a) /\ obj.owner = a

IsAdminHasPermission(a) == IsAuthenticated(a) /\ Role(a) = "admin"

(***************************************************************************)
(* albums/permissions.py                                                   *)
(***************************************************************************)
IsAlbumOwnerHasPermission(a) == IsAuthenticated(a)

IsAlbumOwnerHasObjectPermission(a, obj) ==
    IF Role(a) = "admin" THEN TRUE ELSE obj.owner = a

(***************************************************************************)
(* Sequences of ids in queryset order.                                     *)
(***************************************************************************)
RECURSIVE DescSeq(_)
DescSeq(S) ==
    IF S = {} THEN <<>>
    ELSE LET m == CHOOSE x \in S : \A y \in S : y <= x
         IN <<m>> \o DescSeq(S \ {m})

RECURSIVE AscSeq(_)
AscSeq(S) ==
    IF S = {} THEN <<>>
    ELSE LET m == CHOOSE x \in S : \A y \in S : x <= y
         IN <<m>> \o AscSeq(S \ {m})

Min(a, b) == IF a <= b THEN a ELSE b

(***************************************************************************)
(* photos/serializers.py: the fields PhotoSerializer writes out.           *)
(***************************************************************************)
PhotoData(pid) ==
    [id |-> pid, title |-> photos[pid].title,
     visibility |-> photos[pid].visibility,
     image_url |-> photos[pid].image_url, owner |-> photos[pid].owner]

PhotoList(ids) == [i \in 1..Len(ids) |-> PhotoData(ids[i])]

Payload(items) == [count |-> Len(items), results |-> items]
EmptyPayload == [count |-> 0, results |-> <<>>]

(***************************************************************************)
(* Cache keys.                                                             *)
(***************************************************************************)
Key(kind, id, user, page) == [kind |-> kind, id |-> id, user |-> user, page |-> page]
NoKey == Key("none", 0, "", "")

PhotoListUserKey(uid, page) == Key("photos_list_user", 0, uid, page)
PhotoListAnonKey(page) == Key("photos_list_anon", 0, "", page)
PhotoDetailKey(pid) == Key("photo_detail", pid, "", "")
MyPhotosKey(uid) == Key("my_photos_user", 0, uid, "")
PublicPhotosKey == Key("public_photos", 0, "", "")

AlbumListKey(uid, page) == Key("albums_list_user", 0, uid, page)
AlbumDetailKey(aid, uid) == Key("album_detail", aid, uid, "")
AlbumPhotosKey(aid, uid) == Key("album_photos", aid, uid, "")
MyAlbumsKey(uid) == Key("my_albums_user", 0, uid, "")

(***************************************************************************)
(* The page query parameter is the raw string of the request; the f-string *)
(* of the key keeps its spelling, the paginator parses it.                 *)
(***************************************************************************)
PageParams == {"", "1", "2", "01"}
PageKeyPart(p) == IF p = "" THEN "1" ELSE p
PageNumber(p) ==
    CASE p = "" -> 1
      [] p = "1" -> 1
      [] p = "01" -> 1
      [] p = "2" -> 2
      [] p = "3" -> 3
      [] OTHER -> 0

PageStr(n) ==
    CASE n = 1 -> "1" [] n = 2 -> "2" [] n = 3 -> "3" [] n = 4 -> "4"
      [] n = 5 -> "5" [] n = 6 -> "6" [] n = 7 -> "7" [] n = 8 -> "8"
      [] n = 9 -> "9" [] n = 10 -> "10" [] OTHER -> "11"

InvalidatedPageStrs == {PageStr(n) : n \in 1..INVALIDATED_PAGES}

(***************************************************************************)
(* django.core.cache                                                       *)
(***************************************************************************)
Cached(k) == k \in DOMAIN cache

\* Mutant of CacheSet: the value is never stored.
CacheSetDropped(c, k, v, timeout) == c

CacheSet(c, k, v, timeout) ==
    [x \in DOMAIN c \cup {k} |->
        IF x = k THEN [value |-> v, ttl |-> timeout] ELSE c[x]]

CacheDelete(c, ks) == [x \in DOMAIN c \ ks |-> c[x]]

(***************************************************************************)
(* rest_framework pagination of a queryset given as a sequence of ids.     *)
(***************************************************************************)
NumPages(n) == IF n = 0 THEN 1 ELSE (n + PAGE_SIZE - 1) \div PAGE_SIZE
ValidPage(p, n) == PageNumber(p) >= 1 /\ PageNumber(p) <= NumPages(n)
PageOf(ids, p) ==
    SubSeq(ids, (PageNumber(p) - 1) * PAGE_SIZE + 1,
           Min(PageNumber(p) * PAGE_SIZE, Len(ids)))

(***************************************************************************)
(* Responses.                                                              *)
(***************************************************************************)
R(op, a, target, status) ==
    [op |-> op, actor |-> a, target |-> target, status |-> status, err |-> "",
     warning |-> FALSE, payload |-> EmptyPayload, key |-> NoKey, hit |-> FALSE,
     dbq |-> 0, photo |-> 0, owner |-> "", s3err |-> FALSE, method |-> ""]

NoResp == R("none", Anon, 0, 0)
Denied(op, a, target) ==
    [R(op, a, target, IF IsAuthenticated(a) THEN 403 ELSE 401) EXCEPT !.err = "denied"]
NotFound(op, a, target) == [R(op, a, target, 404) EXCEPT !.err = "not_found"]
CacheError(op, a, target) == [R(op, a, target, 500) EXCEPT !.err = "cache"]

(***************************************************************************)
(* Uploaded files.  mime is what the content signature says, ext the       *)
(* filename extension, content_type what the client declared, size is in   *)
(* units of the configured maximum.                                        *)
(***************************************************************************)
NoFile == [size |-> 0, mime |-> "", ext |-> "", content_type |-> ""]
JpegFile ==
    [size |-> 1, mime |-> "image/jpeg", ext |-> "jpg", content_type |-> "image/jpeg"]
BigJpegFile ==
    [size |-> 2, mime |-> "image/jpeg", ext |-> "jpg", content_type |-> "image/jpeg"]
BmpFile ==
    [size |-> 1, mime |-> "image/bmp", ext |-> "bmp", content_type |-> "image/bmp"]
JpegAsBmpFile ==
    [size |-> 1, mime |-> "image/jpeg", ext |-> "bmp", content_type |-> "image/jpeg"]
PdfAsJpgFile ==
    [size |-> 1, mime |-> "application/pdf", ext |-> "jpg",
     content_type |-> "image/jpeg"]
BigPdfFile ==
    [size |-> 2, mime |-> "application/pdf", ext |-> "exe",
     content_type |-> "application/pdf"]
\* A bitmap named .jpg and declared image/jpeg by the client.
BmpAsJpegFile ==
    [size |-> 1, mime |-> "image/bmp", ext |-> "jpg", content_type |-> "image/jpeg"]
AllFiles ==
    {JpegFile, BigJpegFile, BmpFile, JpegAsBmpFile, PdfAsJpgFile, BigPdfFile,
     BmpAsJpegFile}

ALLOWED_IMAGE_TYPES == {"image/jpeg", "image/png", "image/gif", "image/webp"}
ALLOWED_IMAGE_EXTENSIONS == {"jpg", "jpeg", "png", "gif", "webp"}

\* serializers.ImageField: the content decodes as an image and the extension
\* is one of an image format.
ImageFieldValid(file) ==
    /\ file.mime \in ALLOWED_IMAGE_TYPES \cup {"image/bmp"}
    /\ file.ext \in ALLOWED_IMAGE_EXTENSIONS \cup {"bmp"}

(***************************************************************************)
(* core/services/storage.py                                                *)
(***************************************************************************)
S3Domain == "cdn.example"
NoUrl == <<>>

\* Mutant of ValidateFile: the size is not checked.
ValidateFileAnySize(file) ==
    IF file.mime \notin ALLOWED_IMAGE_TYPES THEN "mime"
    ELSE IF file.ext \notin ALLOWED_IMAGE_EXTENSIONS THEN "ext"
    ELSE "ok"

\* Mutant of ValidateFile: the type is what the client declared.
ValidateFileDeclaredType(file) ==
    IF file.size > MAX_UPLOAD_SIZE THEN "size"
    ELSE IF file.content_type \notin ALLOWED_IMAGE_TYPES THEN "mime"
    ELSE IF file.ext \notin ALLOWED_IMAGE_EXTENSIONS THEN "ext"
    ELSE "ok"

\* Mutant of ValidateFile: the extension is checked before the content type.
ValidateFileExtensionFirst(file) ==
    IF file.size > MAX_UPLOAD_SIZE THEN "size"
    ELSE IF file.ext \notin ALLOWED_IMAGE_EXTENSIONS THEN "ext"
    ELSE IF file.mime \notin ALLOWED_IMAGE_TYPES THEN "mime"
    ELSE "ok"

\* validate_file(): size, then the type read from the content's signature
\* (magic.from_buffer), then the filename extension.
ValidateFile(file) ==
    IF file.size > MAX_UPLOAD_SIZE THEN "size"
    ELSE IF file.mime \notin ALLOWED_IMAGE_TYPES THEN "mime"
    ELSE IF file.ext \notin ALLOWED_IMAGE_EXTENSIONS THEN "ext"
    ELSE "ok"

Uuid(n) ==
    CASE n = 1 -> "uuid1" [] n = 2 -> "uuid2" [] n = 3 -> "uuid3"
      [] n = 4 -> "uuid4" [] OTHER -> "uuid5"

GenerateUniqueFilename(file, n) == <<Uuid(n), ".", file.ext>>

UserFolder(a) == <<"users", "/", a>>

FilePath(folder, unique) ==
    IF folder # <<>> THEN folder \o <<"/">> \o unique ELSE unique

PublicUrl(path) == <<"https://", S3Domain, "/">> \o path

\* Positions where the separator "<domain>/" starts in a url.
SepAt(url) ==
    {i \in 1..(Len(url) - 1) : url[i] = S3Domain /\ url[i + 1] = "/"}

\* file_url.split(f"{domain}/")[1]: the piece between the first and the
\* second separator; IndexError when there is no separator.
HasFileKey(url) == SepAt(url) # {}
FileKey(url) ==
    LET first == CHOOSE i \in SepAt(url) : \A j \in SepAt(url) : i <= j
        rest == SepAt(url) \ {first}
        stop == IF rest = {} THEN Len(url) + 1
                ELSE CHOOSE i \in rest : \A j \in rest : i <= j
    IN SubSeq(url, first + 2, stop - 1)

\* Mutant of UploadOk: upload returns a url whatever validation said.
UploadOkUnvalidated(file, s3ok) == s3ok

\* upload(): validate, then transmit; s3ok is the backend's answer.
UploadOk(file, s3ok) == ValidateFile(file) = "ok" /\ s3ok
UploadErr(file, s3ok) ==
    IF ValidateFile(file) # "ok" THEN ValidateFile(file) ELSE "s3"
UploadPath(file, folder, n) == FilePath(folder, GenerateUniqueFilename(file, n))
UploadUrl(file, folder, n) == PublicUrl(UploadPath(file, folder, n))

\* delete(): StorageException on a malformed url or a backend error.
DeleteOk(url, s3ok) == HasFileKey(url) /\ s3ok
BlobsAfterDelete(b, url, s3ok) ==
    IF DeleteOk(url, s3ok) THEN b \ {FileKey(url)} ELSE b

FileExists(url, s3ok) == HasFileKey(url) /\ s3ok /\ FileKey(url) \in blobs

(***************************************************************************)
(* The entity store.                                                       *)
(***************************************************************************)
PhotoIds == 1..MaxPhotos
AlbumIds == 1..MaxAlbums
Pairs == AlbumIds \X PhotoIds

Exists(pid) == pid \in DOMAIN photos
Insert(tbl, id, row) == [x \in DOMAIN tbl \cup {id} |-> IF x = id THEN row ELSE tbl[x]]
Remove(tbl, id) == [x \in DOMAIN tbl \ {id} |-> tbl[x]]

\* on_delete=CASCADE of the link tables.
DropPhotoLinks(tbl, pid) == [x \in Pairs |-> IF x[2] = pid THEN 0 ELSE tbl[x]]
DropAlbumLinks(tbl, aid) == [x \in Pairs |-> IF x[1] = aid THEN 0 ELSE tbl[x]]

(***************************************************************************)
(* photos/views.py                                                         *)
(***************************************************************************)
\* Mutant of GetQueryset: every actor is given every photo.
GetQuerysetEverything(a) == DOMAIN photos

\* get_queryset()
GetQueryset(a) ==
    IF IsAuthenticated(a) /\ Role(a) = "admin" THEN DOMAIN photos
    ELSE IF IsAuthenticated(a)
         THEN {p \in DOMAIN photos :
                 photos[p].visibility = "public" \/ photos[p].owner = a}
    ELSE {p \in DOMAIN photos : photos[p].visibility = "public"}

\* get_object(): 404 outside the queryset, then the object permission.
GetObjectStatus(a, method, pid) ==
    IF pid \notin GetQueryset(a) THEN 404
    ELSE IF ~HasObjectPermission(a, method, photos[pid]) THEN 403
    ELSE 200

InvalidatePhotoKeys(user, pid) ==
    {PhotoListUserKey(user, s) : s \in InvalidatedPageStrs}
        \cup {PhotoListAnonKey(s) : s \in InvalidatedPageStrs}
        \cup (IF pid # 0 THEN {PhotoDetailKey(pid)} ELSE {})
        \cup {MyPhotosKey(user), PublicPhotosKey}

\* Mutant of InvalidatePhotoCaches: nothing is deleted.
InvalidatePhotoCachesNothing(c, user, pid) == c

InvalidatePhotoCaches(c, user, pid) == CacheDelete(c, InvalidatePhotoKeys(user, pid))

\* Mutant of InvalidateAllKeys: the anonymous list pages are left alone.
InvalidateAllKeysPublicOnly == {PublicPhotosKey}

InvalidateAllKeys ==
    {PublicPhotosKey} \cup {PhotoListAnonKey(s) : s \in InvalidatedPageStrs}

InvalidateAllCaches(c) == CacheDelete(c, InvalidateAllKeys)

Step == nsteps < MaxSteps /\ nsteps' = nsteps + 1

\* list(): GET /api/photos/?page=p
ListRequest(a, p) ==
    LET key == IF IsAuthenticated(a) THEN PhotoListUserKey(a, PageKeyPart(p))
               ELSE PhotoListAnonKey(PageKeyPart(p))
        ids == DescSeq(GetQueryset(a))
        data == [count |-> Len(ids), results |-> PhotoList(PageOf(ids, p))]
        r == [R("list", a, 0, 200) EXCEPT !.key = key]
    IN /\ HasPermission(a, "GET")
       /\ IF ~cacheUp
          THEN resp' = [CacheError("list", a, 0) EXCEPT !.key = key] /\ UNCHANGED cache
          ELSE IF Cached(key)
          THEN /\ resp' = [r EXCEPT !.payload = cache[key].value, !.hit = TRUE]
               /\ UNCHANGED cache
          ELSE IF ~ValidPage(p, Len(ids))
          THEN /\ resp' = [NotFound("list", a, 0) EXCEPT !.key = key, !.dbq = 1]
               /\ UNCHANGED cache
          ELSE /\ resp' = [r EXCEPT !.payload = data, !.dbq = 1]
               /\ cache' = CacheSet(cache, key, data, CACHE_TTL)
       /\ UNCHANGED <<storeVars, blobs, nextBlob, env, flagged>>

\* One list request is one step of the service.
List(a, p) == Step /\ ListRequest(a, p)

\* Mutant of Retrieve: a retrieve that finds no photo stores its error body
\* under the key.
RetrieveCachesError(a, pid) ==
    LET key == PhotoDetailKey(pid)
        st == GetObjectStatus(a, "GET", pid)
        r == [R("retrieve", a, pid, 200) EXCEPT !.key = key]
    IN /\ Step
       /\ HasPermission(a, "GET")
       /\ IF ~cacheUp
          THEN resp' = [CacheError("retrieve", a, pid) EXCEPT !.key = key] /\ UNCHANGED cache
          ELSE IF Cached(key)
          THEN /\ resp' = [r EXCEPT !.payload = cache[key].value, !.hit = TRUE]
               /\ UNCHANGED cache
          ELSE IF st = 404
          THEN /\ resp' = [NotFound("retrieve", a, pid) EXCEPT !.key = key, !.dbq = 1]
               /\ cache' = CacheSet(cache, key, EmptyPayload, CACHE_TTL)
          ELSE IF st = 403
          THEN /\ resp' = [Denied("retrieve", a, pid) EXCEPT !.key = key, !.dbq = 1]
               /\ UNCHANGED cache
          ELSE /\ resp' = [r EXCEPT !.payload = Payload(<<PhotoData(pid)>>), !.dbq = 1]
               /\ cache' = CacheSet(cache, key, Payload(<<PhotoData(pid)>>),
                                    IF photos[pid].visibility = "public"
                                    THEN CACHE_TTL_LONG ELSE CACHE_TTL)
       /\ UNCHANGED <<storeVars, blobs, nextBlob, env, flagged>>

\* retrieve(): GET /api/photos/<pid>/
Retrieve(a, pid) ==
    LET key == PhotoDetailKey(pid)
        st == GetObjectStatus(a, "GET", pid)
        r == [R("retrieve", a, pid, 200) EXCEPT !.key = key]
    IN /\ Step
       /\ HasPermission(a, "GET")
       /\ IF ~cacheUp
          THEN resp' = [CacheError("retrieve", a, pid) EXCEPT !.key = key] /\ UNCHANGED cache
          ELSE IF Cached(key)
          THEN /\ resp' = [r EXCEPT !.payload = cache[key].value, !.hit = TRUE]
               /\ UNCHANGED cache
          ELSE IF st = 404
          THEN /\ resp' = [NotFound("retrieve", a, pid) EXCEPT !.key = key, !.dbq = 1]
               /\ UNCHANGED cache
          ELSE IF st = 403
          THEN /\ resp' = [Denied("retrieve", a, pid) EXCEPT !.key = key, !.dbq = 1]
               /\ UNCHANGED cache
          ELSE /\ resp' = [r EXCEPT !.payload = Payload(<<PhotoData(pid)>>), !.dbq = 1]
               /\ cache' = CacheSet(cache, key, Payload(<<PhotoData(pid)>>),
                                    IF photos[pid].visibility = "public"
                                    THEN CACHE_TTL_LONG ELSE CACHE_TTL)
       /\ UNCHANGED <<storeVars, blobs, nextBlob, env, flagged>>

\* my_photos(): GET /api/photos/my_photos/
MyPhotos(a) ==
    LET key == MyPhotosKey(a)
        ids == DescSeq({p \in DOMAIN photos : photos[p].owner = a})
        data == Payload(PhotoList(ids))
        r == [R("my_photos", a, 0, 200) EXCEPT !.key = key]
    IN /\ Step
       /\ IF ~IsAuthenticated(a)
          THEN resp' = [R("my_photos", a, 0, 401) EXCEPT !.err = "auth"] /\ UNCHANGED cache
          ELSE IF ~cacheUp
          THEN resp' = [CacheError("my_photos", a, 0) EXCEPT !.key = key] /\ UNCHANGED cache
          ELSE IF Cached(key)
          THEN /\ resp' = [r EXCEPT !.payload = cache[key].value, !.hit = TRUE]
               /\ UNCHANGED cache
          ELSE /\ resp' = [r EXCEPT !.payload = data, !.dbq = 1]
               /\ cache' = CacheSet(cache, key, data, CACHE_TTL)
       /\ UNCHANGED <<storeVars, blobs, nextBlob, env, flagged>>

\* public(): GET /api/photos/public/
Public(a) ==
    LET key == PublicPhotosKey
        ids == DescSeq({p \in DOMAIN photos : photos[p].visibility = "public"})
        data == Payload(PhotoList(ids))
        r == [R("public", a, 0, 200) EXCEPT !.key = key]
    IN /\ Step
       /\ IF ~cacheUp
          THEN resp' = [CacheError("public", a, 0) EXCEPT !.key = key] /\ UNCHANGED cache
          ELSE IF Cached(key)
          THEN /\ resp' = [r EXCEPT !.payload = cache[key].value, !.hit = TRUE]
               /\ UNCHANGED cache
          ELSE /\ resp' = [r EXCEPT !.payload = data, !.dbq = 1]
               /\ cache' = CacheSet(cache, key, data, CACHE_TTL * 2)
       /\ UNCHANGED <<storeVars, blobs, nextBlob, env, flagged>>

\* create(): POST /api/photos/
Create(a, title, vis, file, s3ok) ==
    LET pid == nextPhotoId
        path == UploadPath(file, UserFolder(a), nextBlob)
        row == [owner |-> a, visibility |-> vis, title |-> title,
                image_url |-> PublicUrl(path)]
        r == [R("create", a, pid, 201) EXCEPT !.owner = a]
    IN /\ Step
       /\ nextPhotoId <= MaxPhotos
       /\ nextBlob <= MaxBlobs
       /\ IF ~HasPermission(a, "POST")
          THEN /\ resp' = Denied("create", a, 0)
               /\ UNCHANGED <<photos, nextPhotoId, blobs, nextBlob, cache>>
          ELSE IF file # NoFile /\ ~ImageFieldValid(file)
          THEN /\ resp' = [R("create", a, 0, 400) EXCEPT !.err = "invalid"]
               /\ UNCHANGED <<photos, nextPhotoId, blobs, nextBlob, cache>>
          ELSE IF file = NoFile
          THEN /\ resp' = [R("create", a, 0, 400) EXCEPT !.err = "no_image"]
               /\ UNCHANGED <<photos, nextPhotoId, blobs, nextBlob, cache>>
          ELSE IF ~UploadOk(file, s3ok)
          THEN /\ resp' = [R("create", a, 0, 400) EXCEPT !.err = UploadErr(file, s3ok)]
               /\ UNCHANGED <<photos, nextPhotoId, blobs, nextBlob, cache>>
          ELSE /\ blobs' = blobs \cup {path}
               /\ nextBlob' = nextBlob + 1
               /\ photos' = Insert(photos, pid, row)
               /\ nextPhotoId' = nextPhotoId + 1
               /\ IF cacheUp
                  THEN /\ cache' = InvalidatePhotoCaches(cache, a, 0)
                       /\ resp' = [r EXCEPT !.payload = Payload(<<[id |-> pid] @@ row>>)]
                  ELSE /\ UNCHANGED cache
                       /\ resp' = [CacheError("create", a, pid) EXCEPT !.owner = a]
       /\ UNCHANGED <<albums, nextAlbumId, m2m, albumPhotos, env, flagged>>

\* update(): PUT/PATCH /api/photos/<pid>/
Update(a, pid, title, vis, file, s3del, s3up) ==
    LET st == GetObjectStatus(a, "PUT", pid)
        old == photos[pid]
        b1 == IF old.image_url # NoUrl
              THEN BlobsAfterDelete(blobs, old.image_url, s3del) ELSE blobs
        path == UploadPath(file, UserFolder(a), nextBlob)
        row == [old EXCEPT !.title = title, !.visibility = vis,
                           !.image_url = IF file # NoFile THEN PublicUrl(path) ELSE @]
        r == [R("update", a, pid, 200) EXCEPT !.owner = old.owner]
    IN /\ Step
       /\ nextBlob <= MaxBlobs
       /\ IF ~HasPermission(a, "PUT")
          THEN /\ resp' = Denied("update", a, pid)
               /\ UNCHANGED <<photos, blobs, nextBlob, cache>>
          ELSE IF st = 404
          THEN /\ resp' = NotFound("update", a, pid)
               /\ UNCHANGED <<photos, blobs, nextBlob, cache>>
          ELSE IF st = 403
          THEN /\ resp' = Denied("update", a, pid)
               /\ UNCHANGED <<photos, blobs, nextBlob, cache>>
          ELSE IF file # NoFile /\ ~ImageFieldValid(file)
          THEN /\ resp' = [R("update", a, pid, 400) EXCEPT !.err = "invalid"]
               /\ UNCHANGED <<photos, blobs, nextBlob, cache>>
          ELSE IF file # NoFile /\ ~UploadOk(file, s3up)
          THEN /\ resp' = [R("update", a, pid, 400) EXCEPT !.err = UploadErr(file, s3up)]
               /\ blobs' = b1
               /\ UNCHANGED <<photos, nextBlob, cache>>
          ELSE /\ IF file # NoFile
                  THEN blobs' = b1 \cup {path} /\ nextBlob' = nextBlob + 1
                  ELSE UNCHANGED <<blobs, nextBlob>>
               /\ photos' = [photos EXCEPT ![pid] = row]
               /\ IF cacheUp
                  THEN /\ cache' = InvalidatePhotoCaches(cache, a, pid)
                       /\ resp' = [r EXCEPT !.payload = Payload(<<[id |-> pid] @@ row>>)]
                  ELSE /\ UNCHANGED cache
                       /\ resp' = [CacheError("update", a, pid) EXCEPT !.owner = old.owner]
       /\ UNCHANGED <<nextPhotoId, albums, nextAlbumId, m2m, albumPhotos, env, flagged>>

\* perform_destroy(photo) / photo.delete(): run on both branches, whether the
\* object store delete went through or raised StorageException.
\* Mutant of PerformDestroy: the row is kept when the object store delete failed.
PerformDestroyUnlessFailed(tbl, pid, deleted) ==
    IF deleted THEN Remove(tbl, pid) ELSE tbl

PerformDestroy(tbl, pid, deleted) == Remove(tbl, pid)

\* destroy(): 204 when the object went too, 200 with a warning when not.
DestroyStatus(deleted) == IF deleted THEN 204 ELSE 200

\* destroy(): DELETE /api/photos/<pid>/
Destroy(a, pid, s3ok) ==
    LET st == GetObjectStatus(a, "DELETE", pid)
        url == photos[pid].image_url
        r == [R("destroy", a, pid, DestroyStatus(DeleteOk(url, s3ok))) EXCEPT
                 !.owner = photos[pid].owner, !.s3err = ~DeleteOk(url, s3ok),
                 !.warning = ~DeleteOk(url, s3ok)]
    IN /\ Step
       /\ IF ~HasPermission(a, "DELETE")
          THEN /\ resp' = Denied("destroy", a, pid)
               /\ UNCHANGED <<photos, m2m, albumPhotos, blobs, cache>>
          ELSE IF st = 404
          THEN /\ resp' = NotFound("destroy", a, pid)
               /\ UNCHANGED <<photos, m2m, albumPhotos, blobs, cache>>
          ELSE IF st = 403
          THEN /\ resp' = Denied("destroy", a, pid)
               /\ UNCHANGED <<photos, m2m, albumPhotos, blobs, cache>>
          ELSE /\ blobs' = BlobsAfterDelete(blobs, url, s3ok)
               /\ photos' = PerformDestroy(photos, pid, DeleteOk(url, s3ok))
               /\ m2m' = DropPhotoLinks(m2m, pid)
               /\ albumPhotos' = DropPhotoLinks(albumPhotos, pid)
               /\ IF ~cacheUp
                  THEN /\ UNCHANGED cache
                       /\ resp' = [r EXCEPT !.status = 500, !.err = "cache",
                                             !.warning = FALSE]
                  ELSE /\ cache' = InvalidatePhotoCaches(cache, a, pid)
                       /\ resp' = r
       /\ UNCHANGED <<nextPhotoId, albums, nextAlbumId, nextBlob, env, flagged>>

\* flag_inappropriate(): POST /api/photos/<pid>/flag_inappropriate/
FlagInappropriate(a, pid, s3ok) ==
    LET url == photos[pid].image_url
        r == [R("flag", a, pid, 200) EXCEPT
                 !.owner = photos[pid].owner, !.s3err = ~DeleteOk(url, s3ok),
                 !.warning = ~DeleteOk(url, s3ok)]
    IN /\ Step
       /\ IF ~IsAdminHasPermission(a)
          THEN /\ resp' = Denied("flag", a, pid)
               /\ UNCHANGED <<photos, m2m, albumPhotos, blobs, cache, flagged>>
          ELSE IF pid \notin GetQueryset(a)
          THEN /\ resp' = NotFound("flag", a, pid)
               /\ UNCHANGED <<photos, m2m, albumPhotos, blobs, cache, flagged>>
          ELSE /\ blobs' = BlobsAfterDelete(blobs, url, s3ok)
               /\ photos' = PerformDestroy(photos, pid, DeleteOk(url, s3ok))
               /\ m2m' = DropPhotoLinks(m2m, pid)
               /\ albumPhotos' = DropPhotoLinks(albumPhotos, pid)
               /\ flagged' = flagged \cup {pid}
               /\ IF ~cacheUp
                  THEN /\ UNCHANGED cache
                       /\ resp' = [r EXCEPT !.status = 500, !.err = "cache",
                                             !.warning = FALSE]
                  ELSE /\ cache' = InvalidateAllCaches(cache)
                       /\ resp' = r
       /\ UNCHANGED <<nextPhotoId, albums, nextAlbumId, nextBlob, env>>

(***************************************************************************)
(* albums/models.py, albums/serializers.py                                 *)
(***************************************************************************)
\* Album.photos: the photos linked through the many-to-many table.
AlbumM2M(aid) == {p \in PhotoIds : m2m[<<aid, p>>] > 0}

\* Album.get_visible_photos(user)
GetVisiblePhotos(aid, a) ==
    IF IsAuthenticated(a) /\ albums[aid].owner = a THEN AlbumM2M(aid)
    ELSE {p \in AlbumM2M(aid) : photos[p].visibility = "public"}

\* AlbumPhoto.objects.filter(album=obj, photo__in=visible), one entry a row.
RECURSIVE Repeat(_, _)
Repeat(x, n) == IF n = 0 THEN <<>> ELSE <<x>> \o Repeat(x, n - 1)

RECURSIVE AlbumPhotoRows(_, _)
AlbumPhotoRows(aid, ids) ==
    IF ids = <<>> THEN <<>>
    ELSE Repeat(PhotoData(Head(ids)), albumPhotos[<<aid, Head(ids)>>])
            \o AlbumPhotoRows(aid, Tail(ids))

\* AlbumSerializer
AlbumData(aid) ==
    [id |-> aid, title |-> albums[aid].title, owner |-> albums[aid].owner,
     photo_count |-> Cardinality(AlbumM2M(aid))]

AlbumList(ids) == [i \in 1..Len(ids) |-> AlbumData(ids[i])]

\* AlbumDetailSerializer
AlbumDetailData(aid, a) ==
    [id |-> aid, title |-> albums[aid].title, owner |-> albums[aid].owner,
     photos |-> AlbumPhotoRows(aid, AscSeq(GetVisiblePhotos(aid, a))),
     photo_count |-> Cardinality(GetVisiblePhotos(aid, a))]

(***************************************************************************)
(* albums/views.py                                                         *)
(***************************************************************************)
AlbumGetQueryset(a) ==
    IF Role(a) = "admin" THEN DOMAIN albums
    ELSE {x \in DOMAIN albums : albums[x].owner = a}

AlbumGetObjectStatus(a, aid) ==
    IF aid \notin AlbumGetQueryset(a) THEN 404
    ELSE IF ~IsAlbumOwnerHasObjectPermission(a, albums[aid]) THEN 403
    ELSE 200

InvalidateAlbumKeys(user, aid) ==
    {AlbumListKey(user, s) : s \in InvalidatedPageStrs}
        \cup (IF aid # 0 THEN {AlbumDetailKey(aid, user), AlbumPhotosKey(aid, user)}
              ELSE {})
        \cup {MyAlbumsKey(user)}

InvalidateAlbumCaches(c, user, aid) == CacheDelete(c, InvalidateAlbumKeys(user, aid))

InvalidateAllAlbumCaches(c) == c

\* list(): GET /api/albums/?page=p
AlbumListView(a, p) ==
    LET key == AlbumListKey(a, PageKeyPart(p))
        ids == DescSeq(AlbumGetQueryset(a))
        data == [count |-> Len(ids), results |-> AlbumList(PageOf(ids, p))]
        r == [R("album_list", a, 0, 200) EXCEPT !.key = key]
    IN /\ Step
       /\ IF ~IsAlbumOwnerHasPermission(a)
          THEN resp' = Denied("album_list", a, 0) /\ UNCHANGED cache
          ELSE IF ~cacheUp
          THEN resp' = [CacheError("album_list", a, 0) EXCEPT !.key = key] /\ UNCHANGED cache
          ELSE IF Cached(key)
          THEN /\ resp' = [r EXCEPT !.payload = cache[key].value, !.hit = TRUE]
               /\ UNCHANGED cache
          ELSE IF ~ValidPage(p, Len(ids))
          THEN /\ resp' = [NotFound("album_list", a, 0) EXCEPT !.key = key, !.dbq = 1]
               /\ UNCHANGED cache
          ELSE /\ resp' = [r EXCEPT !.payload = data, !.dbq = 1]
               /\ cache' = CacheSet(cache, key, data, CACHE_TTL)
       /\ UNCHANGED <<storeVars, blobs, nextBlob, env, flagged>>

\* retrieve(): GET /api/albums/<aid>/
AlbumRetrieve(a, aid) ==
    LET key == AlbumDetailKey(aid, a)
        st == AlbumGetObjectStatus(a, aid)
        r == [R("album_retrieve", a, aid, 200) EXCEPT !.key = key]
    IN /\ Step
       /\ IF ~IsAlbumOwnerHasPermission(a)
          THEN resp' = Denied("album_retrieve", a, aid) /\ UNCHANGED cache
          ELSE IF ~cacheUp
          THEN resp' = [CacheError("album_retrieve", a, aid) EXCEPT !.key = key]
               /\ UNCHANGED cache
          ELSE IF Cached(key)
          THEN /\ resp' = [r EXCEPT !.payload = cache[key].value, !.hit = TRUE]
               /\ UNCHANGED cache
          ELSE IF st # 200
          THEN /\ resp' = [R("album_retrieve", a, aid, st) EXCEPT
                              !.err = IF st = 404 THEN "not_found" ELSE "denied",
                              !.key = key, !.dbq = 1]
               /\ UNCHANGED cache
          ELSE /\ resp' = [r EXCEPT !.payload = Payload(<<AlbumDetailData(aid, a)>>),
                                    !.dbq = 2]
               /\ cache' = CacheSet(cache, key, Payload(<<AlbumDetailData(aid, a)>>),
                                    CACHE_TTL)
       /\ UNCHANGED <<storeVars, blobs, nextBlob, env, flagged>>

\* photos(): GET /api/albums/<aid>/photos/ ; get_object() runs before the
\* cache is consulted.
AlbumPhotosView(a, aid) ==
    LET key == AlbumPhotosKey(aid, a)
        st == AlbumGetObjectStatus(a, aid)
        data == Payload(AlbumPhotoRows(aid, AscSeq(GetVisiblePhotos(aid, a))))
        r == [R("album_photos", a, aid, 200) EXCEPT !.key = key]
    IN /\ Step
       /\ IF ~IsAlbumOwnerHasPermission(a)
          THEN resp' = Denied("album_photos", a, aid) /\ UNCHANGED cache
          ELSE IF st # 200
          THEN /\ resp' = [R("album_photos", a, aid, st) EXCEPT
                              !.err = IF st = 404 THEN "not_found" ELSE "denied",
                              !.key = key, !.dbq = 1]
               /\ UNCHANGED cache
          ELSE IF ~cacheUp
          THEN resp' = [CacheError("album_photos", a, aid) EXCEPT !.key = key, !.dbq = 1]
               /\ UNCHANGED cache
          ELSE IF Cached(key)
          THEN /\ resp' = [r EXCEPT !.payload = cache[key].value, !.hit = TRUE, !.dbq = 1]
               /\ UNCHANGED cache
          ELSE /\ resp' = [r EXCEPT !.payload = data, !.dbq = 2]
               /\ cache' = CacheSet(cache, key, data, CACHE_TTL)
       /\ UNCHANGED <<storeVars, blobs, nextBlob, env, flagged>>

\* my_albums(): GET /api/albums/my_albums/
MyAlbums(a) ==
    LET key == MyAlbumsKey(a)
        ids == DescSeq({x \in DOMAIN albums : albums[x].owner = a})
        data == Payload(AlbumList(ids))
        r == [R("my_albums", a, 0, 200) EXCEPT !.key = key]
    IN /\ Step
       /\ IF ~IsAuthenticated(a)
          THEN resp' = Denied("my_albums", a, 0) /\ UNCHANGED cache
          ELSE IF ~cacheUp
          THEN resp' = [CacheError("my_albums", a, 0) EXCEPT !.key = key] /\ UNCHANGED cache
          ELSE IF Cached(key)
          THEN /\ resp' = [r EXCEPT !.payload = cache[key].value, !.hit = TRUE]
               /\ UNCHANGED cache
          ELSE /\ resp' = [r EXCEPT !.payload = data, !.dbq = 1]
               /\ cache' = CacheSet(cache, key, data, CACHE_TTL)
       /\ UNCHANGED <<storeVars, blobs, nextBlob, env, flagged>>

\* create(): POST /api/albums/
AlbumCreate(a, title) ==
    LET aid == nextAlbumId
        row == [owner |-> a, title |-> title]
    IN /\ Step
       /\ nextAlbumId <= MaxAlbums
       /\ IF ~IsAlbumOwnerHasPermission(a)
          THEN /\ resp' = Denied("album_create", a, 0)
               /\ UNCHANGED <<albums, nextAlbumId, cache>>
          ELSE /\ albums' = Insert(albums, aid, row)
               /\ nextAlbumId' = nextAlbumId + 1
               /\ IF cacheUp
                  THEN /\ cache' = InvalidateAlbumCaches(cache, a, 0)
                       /\ resp' = R("album_create", a, aid, 201)
                  ELSE /\ UNCHANGED cache
                       /\ resp' = CacheError("album_create", a, aid)
       /\ UNCHANGED <<photos, nextPhotoId, m2m, albumPhotos, blobs, nextBlob, env,
                      flagged>>

\* update(): PUT/PATCH /api/albums/<aid>/
AlbumUpdate(a, aid, title) ==
    LET st == IF ~IsAlbumOwnerHasPermission(a) THEN 401 ELSE AlbumGetObjectStatus(a, aid)
    IN /\ Step
       /\ IF st # 200
          THEN /\ resp' = [R("album_update", a, aid, st) EXCEPT
                              !.err = IF st = 404 THEN "not_found" ELSE "denied"]
               /\ UNCHANGED <<albums, cache>>
          ELSE /\ albums' = [albums EXCEPT ![aid].title = title]
               /\ IF cacheUp
                  THEN /\ cache' = InvalidateAlbumCaches(cache, a, aid)
                       /\ resp' = R("album_update", a, aid, 200)
                  ELSE /\ UNCHANGED cache
                       /\ resp' = CacheError("album_update", a, aid)
       /\ UNCHANGED <<photos, nextPhotoId, nextAlbumId, m2m, albumPhotos, blobs,
                      nextBlob, env, flagged>>

\* destroy(): DELETE /api/albums/<aid>/
AlbumDestroy(a, aid) ==
    LET st == IF ~IsAlbumOwnerHasPermission(a) THEN 401 ELSE AlbumGetObjectStatus(a, aid)
    IN /\ Step
       /\ IF st # 200
          THEN /\ resp' = [R("album_destroy", a, aid, st) EXCEPT
                              !.err = IF st = 404 THEN "not_found" ELSE "denied"]
               /\ UNCHANGED <<albums, m2m, albumPhotos, cache>>
          ELSE /\ albums' = Remove(albums, aid)
               /\ m2m' = DropAlbumLinks(m2m, aid)
               /\ albumPhotos' = DropAlbumLinks(albumPhotos, aid)
               /\ IF cacheUp
                  THEN /\ cache' = InvalidateAlbumCaches(cache, a, aid)
                       /\ resp' = R("album_destroy", a, aid, 204)
                  ELSE /\ UNCHANGED cache
                       /\ resp' = CacheError("album_destroy", a, aid)
       /\ UNCHANGED <<photos, nextPhotoId, nextAlbumId, blobs, nextBlob, env,
                      flagged>>

\* AddPhotoToAlbumSerializer.validate_photo_id
AddPhotoValid(a, pid) == pid \in DOMAIN photos /\ photos[pid].owner = a

\* RemovePhotoFromAlbumSerializer.validate_photo_id
RemovePhotoValid(pid) == pid \in DOMAIN photos

\* album.photos.add(photo): one row for the pair; the table's uniqueness
\* constraint refuses a second one.
M2MAdd(tbl, aid, pid) ==
    IF tbl[<<aid, pid>>] > 0 THEN tbl ELSE [tbl EXCEPT ![<<aid, pid>>] = 1]

\* Mutant of M2MRemove: the link row is left in place.
M2MRemoveNothing(tbl, aid, pid) == tbl

\* album.photos.remove(photo)
M2MRemove(tbl, aid, pid) == [tbl EXCEPT ![<<aid, pid>>] = 0]

\* add_photo(): POST /api/albums/<aid>/add_photo/
AddPhoto(a, aid, pid) ==
    LET st == IF ~IsAlbumOwnerHasPermission(a) THEN 401 ELSE AlbumGetObjectStatus(a, aid)
        r == [R("add_photo", a, aid, 200) EXCEPT !.photo = pid]
    IN /\ Step
       /\ IF st # 200
          THEN /\ resp' = [r EXCEPT !.status = st,
                                    !.err = IF st = 404 THEN "not_found" ELSE "denied"]
               /\ UNCHANGED <<m2m, cache>>
          ELSE IF ~AddPhotoValid(a, pid)
          THEN /\ resp' = [r EXCEPT !.status = 400, !.err = "invalid"]
               /\ UNCHANGED <<m2m, cache>>
          ELSE IF m2m[<<aid, pid>>] > 0
          THEN /\ resp' = [r EXCEPT !.status = 400, !.err = "already"]
               /\ UNCHANGED <<m2m, cache>>
          ELSE /\ m2m' = M2MAdd(m2m, aid, pid)
               /\ IF cacheUp
                  THEN /\ cache' = InvalidateAlbumCaches(cache, a, aid)
                       /\ resp' = r
                  ELSE /\ UNCHANGED cache
                       /\ resp' = [CacheError("add_photo", a, aid) EXCEPT !.photo = pid]
       /\ UNCHANGED <<photos, nextPhotoId, albums, nextAlbumId, albumPhotos, blobs,
                      nextBlob, env, flagged>>

\* remove_photo(): POST /api/albums/<aid>/remove_photo/
RemovePhoto(a, aid, pid) ==
    LET st == IF ~IsAlbumOwnerHasPermission(a) THEN 401 ELSE AlbumGetObjectStatus(a, aid)
        r == [R("remove_photo", a, aid, 200) EXCEPT !.photo = pid]
    IN /\ Step
       /\ IF st # 200
          THEN /\ resp' = [r EXCEPT !.status = st,
                                    !.err = IF st = 404 THEN "not_found" ELSE "denied"]
               /\ UNCHANGED <<m2m, cache>>
          ELSE IF ~RemovePhotoValid(pid)
          THEN /\ resp' = [r EXCEPT !.status = 400, !.err = "invalid"]
               /\ UNCHANGED <<m2m, cache>>
          ELSE IF ~(m2m[<<aid, pid>>] > 0)
          THEN /\ resp' = [r EXCEPT !.status = 400, !.err = "not_in_album"]
               /\ UNCHANGED <<m2m, cache>>
          ELSE /\ m2m' = M2MRemove(m2m, aid, pid)
               /\ IF cacheUp
                  THEN /\ cache' = InvalidateAlbumCaches(cache, a, aid)
                       /\ resp' = r
                  ELSE /\ UNCHANGED cache
                       /\ resp' = [CacheError("remove_photo", a, aid) EXCEPT !.photo = pid]
       /\ UNCHANGED <<photos, nextPhotoId, albums, nextAlbumId, albumPhotos, blobs,
                      nextBlob, env, flagged>>

\* flag_inappropriate(): POST /api/albums/<aid>/flag_inappropriate/
AlbumFlagInappropriate(a, aid) ==
    /\ Step
    /\ IF ~IsAdminHasPermission(a)
       THEN /\ resp' = Denied("album_flag", a, aid)
            /\ UNCHANGED <<albums, m2m, albumPhotos, cache>>
       ELSE IF aid \notin AlbumGetQueryset(a)
       THEN /\ resp' = NotFound("album_flag", a, aid)
            /\ UNCHANGED <<albums, m2m, albumPhotos, cache>>
       ELSE /\ albums' = Remove(albums, aid)
            /\ m2m' = DropAlbumLinks(m2m, aid)
            /\ albumPhotos' = DropAlbumLinks(albumPhotos, aid)
            /\ cache' = InvalidateAllAlbumCaches(cache)
            /\ resp' = R("album_flag", a, aid, 200)
    /\ UNCHANGED <<photos, nextPhotoId, nextAlbumId, blobs, nextBlob, env, flagged>>

(***************************************************************************)
(* Time: d units pass; entries whose timeout has run out are gone.         *)
(***************************************************************************)
\* Mutant of Expire: time passes and no entry is lost.
ExpireNever(d) ==
    /\ DOMAIN cache # {}
    /\ resp' = NoResp
    /\ UNCHANGED <<storeVars, blobs, nextBlob, cacheUp, procs, flagged, cache, expired>>

Expire(d) ==
    /\ DOMAIN cache # {}
    /\ cache' = [k \in {x \in DOMAIN cache : cache[x].ttl > d} |->
                    [cache[k] EXCEPT !.ttl = @ - d]]
    /\ expired' = expired \cup {x \in DOMAIN cache : cache[x].ttl <= d}
    /\ resp' = NoResp
    /\ UNCHANGED <<storeVars, blobs, nextBlob, cacheUp, procs, flagged>>

\* One passage of time is one step.
Tick(d) == Step /\ Expire(d)

(***************************************************************************)
(* The photo service: every photo handler, sequentially, cache reachable.  *)
(***************************************************************************)
NoLinks == [x \in Pairs |-> 0]
NoRows == [x \in {} |-> 0]

\* A photo that u1 uploaded earlier.
SeedUrl == UploadUrl(JpegFile, UserFolder("u1"), 1)
SeedPhoto(v) ==
    [owner |-> "u1", visibility |-> v, title |-> "t0", image_url |-> SeedUrl]

\* An album that u1 created earlier.
SeedAlbum == [owner |-> "u1", title |-> "t0"]

Init ==
    /\ \E v \in Visibilities : photos = Insert(NoRows, 1, SeedPhoto(v))
    /\ nextPhotoId = 2
    /\ albums = Insert(NoRows, 1, SeedAlbum)
    /\ nextAlbumId = 2
    /\ m2m = NoLinks
    /\ albumPhotos = NoLinks
    /\ blobs = {FileKey(SeedUrl)}
    /\ nextBlob = 2
    /\ cache = NoRows
    /\ cacheUp = TRUE
    /\ flagged = {}
    /\ nsteps = 0
    /\ procs = NoRows
    /\ expired = {}
    /\ resp = NoResp

SpecFiles == {NoFile, JpegFile, BigJpegFile}
SpecPages == {"", "2"}
TickSteps == {CACHE_TTL, CACHE_TTL_LONG}

Next ==
    \/ \E a \in Actors, p \in SpecPages : List(a, p)
    \/ \E a \in Actors, pid \in PhotoIds : Retrieve(a, pid)
    \/ \E a \in Actors : MyPhotos(a)
    \/ \E a \in Actors : Public(a)
    \/ \E a \in Actors, t \in Titles, v \in Visibilities, f \in SpecFiles, ok \in BOOLEAN :
          /\ ValidateFile(f) # "ok" => ok
          /\ Create(a, t, v, f, ok)
    \/ \E a \in Actors, pid \in PhotoIds, t \in Titles, v \in Visibilities,
          f \in SpecFiles, d \in BOOLEAN, u \in BOOLEAN :
          /\ pid \in DOMAIN photos
          /\ f = NoFile => d /\ u
          /\ ValidateFile(f) # "ok" => u
          /\ Update(a, pid, t, v, f, d, u)
    \/ \E a \in Actors, pid \in PhotoIds, ok \in BOOLEAN :
          pid \in DOMAIN photos /\ Destroy(a, pid, ok)
    \/ \E a \in Actors, pid \in PhotoIds, ok \in BOOLEAN :
          pid \in DOMAIN photos /\ FlagInappropriate(a, pid, ok)
    \/ \E d \in TickSteps : Tick(d)

AlbumNext ==
    \/ \E a \in Actors, p \in SpecPages : AlbumListView(a, p)
    \/ \E a \in Actors, aid \in AlbumIds : AlbumRetrieve(a, aid)
    \/ \E a \in Actors, aid \in AlbumIds : AlbumPhotosView(a, aid)
    \/ \E a \in Actors : MyAlbums(a)
    \/ \E a \in Actors, t \in Titles : AlbumCreate(a, t)
    \/ \E a \in Actors, aid \in DOMAIN albums, t \in Titles : AlbumUpdate(a, aid, t)
    \/ \E a \in Actors, aid \in DOMAIN albums : AlbumDestroy(a, aid)
    \/ \E a \in Actors, aid \in DOMAIN albums, pid \in PhotoIds : AddPhoto(a, aid, pid)
    \/ \E a \in Actors, aid \in DOMAIN albums, pid \in PhotoIds : RemovePhoto(a, aid, pid)
    \/ \E a \in Actors, aid \in DOMAIN albums : AlbumFlagInappropriate(a, aid)


Spec == Init /\ [][Next]_vars

(***************************************************************************)
(* Properties of the photo service.                                        *)
(***************************************************************************)
PhotoReadOps == {"list", "retrieve", "my_photos", "public"}
PhotoWriteOps == {"create", "update", "destroy"}
Success == {200, 201, 204}

\* An actor who is neither the photo's owner nor an admin.
Outsider(a, pid) ==
    a = Anon \/ (Role(a) # "admin" /\ a # photos[pid].owner)

\* C1: a retrieve of a private photo issued by an anonymous actor or by a
\* non-admin user other than the owner never returns the photo's payload,
\* whatever was retrieved (and cached) before.
C1_PrivatePhotoNeverServed ==
    (/\ resp.op = "retrieve"
     /\ resp.target \in DOMAIN photos
     /\ photos[resp.target].visibility = "private"
     /\ Outsider(resp.actor, resp.target))
        => resp.status # 200

\* The keys of a photo and of its owning actor that a mutation must clear:
\* the detail key, the owner's list pages 1..10 and the owner's my_photos.
OwnerScopedKeys(pid, owner) ==
    {PhotoDetailKey(pid), MyPhotosKey(owner)}
        \cup {PhotoListUserKey(owner, PageStr(n)) : n \in 1..10}

\* C2: once a photo was created, updated or deleted by its owner or by an
\* admin, none of the photo's detail key, the owner's list keys for pages
\* 1..10 and the owner's my_photos key holds a value cached before the
\* mutation, so the next read of each recomputes from the entity store.
C2_OwnerKeysInvalidated ==
    (resp.op \in PhotoWriteOps /\ resp.status \in Success)
        => \A k \in OwnerScopedKeys(resp.target, resp.owner) : k \notin DOMAIN cache

\* C3: after an admin force-deleted a photo, the entity store no longer holds
\* it and no read by any actor returns it, cached before the deletion or not.
C3_FlaggedPhotoNeverReturned ==
    \A pid \in flagged :
        /\ pid \notin DOMAIN photos
        /\ (resp.op \in PhotoReadOps /\ resp.status = 200)
              => \A i \in 1..Len(resp.payload.results) :
                     resp.payload.results[i].id # pid

\* C5: a photo update whose replacement image fails validation leaves the
\* Photo rows, the object store and the cache exactly as they were.
C5_InvalidImageUpdateAborts ==
    [][(resp'.op = "update" /\ resp'.err \in {"invalid", "size", "mime", "ext"})
          => (photos' = photos /\ blobs' = blobs /\ cache' = cache)]_vars

\* C6: when the object store delete fails in destroy or flag_inappropriate,
\* the Photo row is deleted all the same, the caches the handler invalidates
\* are cleared, and the response is a success (200) that carries a warning.
C6_DeleteFailureIsWarning ==
    (resp.op \in {"destroy", "flag"} /\ resp.s3err)
        => /\ resp.status = 200
           /\ resp.warning
           /\ resp.target \notin DOMAIN photos
           /\ PublicPhotosKey \notin DOMAIN cache
           /\ \A n \in 1..10 : PhotoListAnonKey(PageStr(n)) \notin DOMAIN cache
           /\ resp.op = "destroy" =>
                 /\ PhotoDetailKey(resp.target) \notin DOMAIN cache
                 /\ MyPhotosKey(resp.actor) \notin DOMAIN cache
                 /\ \A n \in 1..10 :
                        PhotoListUserKey(resp.actor, PageStr(n)) \notin DOMAIN cache

\* C6 witness: an owner's destroy, served after other requests, whose object
\* store delete failed and whose Photo row is gone.
C6_Witness ==
    /\ resp.op = "destroy"
    /\ resp.s3err
    /\ resp.actor = resp.owner
    /\ nsteps >= 2
    /\ resp.target \notin DOMAIN photos

(***************************************************************************)
(* The album service: the album handlers over a store that holds u1's      *)
(* album, u1's photo and a public photo of u2.                             *)
(***************************************************************************)
OtherUrl == UploadUrl(JpegFile, UserFolder("u2"), 2)
OtherPhoto ==
    [owner |-> "u2", visibility |-> "public", title |-> "t0", image_url |-> OtherUrl]

InitAlbum ==
    /\ \E v \in Visibilities :
          photos = Insert(Insert(NoRows, 1, SeedPhoto(v)), 2, OtherPhoto)
    /\ nextPhotoId = 3
    /\ albums = Insert(NoRows, 1, SeedAlbum)
    /\ nextAlbumId = 2
    /\ m2m = NoLinks
    /\ albumPhotos = NoLinks
    /\ blobs = {FileKey(SeedUrl), FileKey(OtherUrl)}
    /\ nextBlob = 3
    /\ cache = NoRows
    /\ cacheUp = TRUE
    /\ flagged = {}
    /\ nsteps = 0
    /\ procs = NoRows
    /\ expired = {}
    /\ resp = NoResp

SpecAlbum == InitAlbum /\ [][AlbumNext \/ \E d \in TickSteps : Tick(d)]_vars

(***************************************************************************)
(* The cached reads: every read handler of both services and time.         *)
(***************************************************************************)
ReadNext ==
    \/ \E a \in Actors, p \in SpecPages : List(a, p)
    \/ \E a \in Actors, pid \in PhotoIds : Retrieve(a, pid)
    \/ \E a \in Actors : MyPhotos(a)
    \/ \E a \in Actors : Public(a)
    \/ \E a \in Actors, p \in SpecPages : AlbumListView(a, p)
    \/ \E a \in Actors, aid \in AlbumIds : AlbumRetrieve(a, aid)
    \/ \E a \in Actors, aid \in AlbumIds : AlbumPhotosView(a, aid)
    \/ \E a \in Actors : MyAlbums(a)
    \/ \E a \in {"u1"}, aid \in DOMAIN albums, pid \in {1} : AddPhoto(a, aid, pid)
    \/ \E d \in TickSteps : Tick(d)

SpecReads == InitAlbum /\ [][ReadNext]_vars

(***************************************************************************)
(* Two add_photo requests in flight: each runs its existence check, then   *)
(* its insertion, and the two interleave at will.                          *)
(***************************************************************************)
Procs == {"r1", "r2"}
Idle == [pc |-> "idle", actor |-> Anon, album |-> 0, photo |-> 0, status |-> 0,
         err |-> ""]

\* add_photo() up to and including album.photos.filter(id=photo_id).exists()
AddPhotoCheck(p, a, aid, pid) ==
    LET st == IF ~IsAlbumOwnerHasPermission(a) THEN 401 ELSE AlbumGetObjectStatus(a, aid)
        me == [Idle EXCEPT !.actor = a, !.album = aid, !.photo = pid]
        out == IF st # 200
               THEN [me EXCEPT !.pc = "done", !.status = st,
                               !.err = IF st = 404 THEN "not_found" ELSE "denied"]
               ELSE IF ~AddPhotoValid(a, pid)
               THEN [me EXCEPT !.pc = "done", !.status = 400, !.err = "invalid"]
               ELSE IF m2m[<<aid, pid>>] > 0
               THEN [me EXCEPT !.pc = "done", !.status = 400, !.err = "already"]
               ELSE [me EXCEPT !.pc = "checked"]
    IN /\ procs[p].pc = "idle"
       /\ procs' = [procs EXCEPT ![p] = out]
       /\ UNCHANGED <<storeVars, blobs, nextBlob, cache, cacheUp, flagged, nsteps,
                      expired, resp>>

\* add_photo() from album.photos.add(photo) on.  When the row is there by
\* now, the insert is either skipped by the database (ON CONFLICT DO
\* NOTHING) or refused with an IntegrityError, which nothing catches.
AddPhotoInsert(p, onConflict) ==
    LET me == procs[p]
        pair == <<me.album, me.photo>>
        clash == m2m[pair] > 0
    IN /\ me.pc = "checked"
       /\ ~clash => onConflict = "ignore"
       /\ IF clash /\ onConflict = "raise"
          THEN /\ procs' = [procs EXCEPT ![p] = [me EXCEPT !.pc = "done", !.status = 500,
                                                            !.err = "integrity"]]
               /\ UNCHANGED <<m2m, cache>>
          ELSE /\ m2m' = M2MAdd(m2m, me.album, me.photo)
               /\ cache' = InvalidateAlbumCaches(cache, me.actor, me.album)
               /\ procs' = [procs EXCEPT ![p] = [me EXCEPT !.pc = "done", !.status = 200]]
       /\ UNCHANGED <<photos, nextPhotoId, albums, nextAlbumId, albumPhotos, blobs,
                      nextBlob, cacheUp, flagged, nsteps, expired, resp>>

InitRace ==
    /\ \E v \in Visibilities, o \in {"u1", "u2"} :
          photos = Insert(Insert(NoRows, 1, SeedPhoto(v)), 2,
                          [OtherPhoto EXCEPT !.owner = o])
    /\ nextPhotoId = 3
    /\ albums = Insert(NoRows, 1, SeedAlbum)
    /\ nextAlbumId = 2
    /\ m2m = NoLinks
    /\ albumPhotos = NoLinks
    /\ blobs = {FileKey(SeedUrl), FileKey(OtherUrl)}
    /\ nextBlob = 3
    /\ cache = NoRows
    /\ cacheUp = TRUE
    /\ flagged = {}
    /\ nsteps = 0
    /\ procs = [p \in Procs |-> Idle]
    /\ expired = {}
    /\ resp = NoResp

RaceNext ==
    \/ \E p \in Procs, a \in Users, aid \in AlbumIds, pid \in PhotoIds :
          AddPhotoCheck(p, a, aid, pid)
    \/ \E p \in Procs, c \in {"ignore", "raise"} : AddPhotoInsert(p, c)

SpecAddRace == InitRace /\ [][RaceNext]_vars

(***************************************************************************)
(* The services with a cache backend that goes away and comes back.        *)
(***************************************************************************)
CacheGoesDown ==
    /\ cacheUp
    /\ cacheUp' = FALSE
    /\ UNCHANGED <<storeVars, blobs, nextBlob, cache, flagged, nsteps, procs, expired,
                   resp>>

CacheComesBack ==
    /\ ~cacheUp
    /\ cacheUp' = TRUE
    /\ UNCHANGED <<storeVars, blobs, nextBlob, cache, flagged, nsteps, procs, expired,
                   resp>>

CacheFailNext ==
    \/ CacheGoesDown
    \/ CacheComesBack
    \/ \E a \in Actors, p \in SpecPages : List(a, p)
    \/ \E a \in Actors, pid \in PhotoIds : Retrieve(a, pid)
    \/ \E a \in Users, v \in Visibilities : Create(a, "t0", v, JpegFile, TRUE)
    \/ \E a \in Users, pid \in DOMAIN photos, t \in Titles :
          Update(a, pid, t, photos[pid].visibility, NoFile, TRUE, TRUE)
    \/ \E a \in Users, pid \in DOMAIN photos, ok \in BOOLEAN : Destroy(a, pid, ok)
    \/ \E a \in Users, aid \in DOMAIN albums : AlbumRetrieve(a, aid)
    \/ \E a \in Users, aid \in DOMAIN albums, t \in Titles : AlbumUpdate(a, aid, t)
    \/ \E a \in Users, aid \in DOMAIN albums, pid \in DOMAIN photos : AddPhoto(a, aid, pid)

SpecCacheFail == Init /\ [][CacheFailNext]_vars

(***************************************************************************)
(* The object permission of a photo, asked for every actor and method.     *)
(***************************************************************************)
InitPerm ==
    /\ \E v \in Visibilities, o \in Users :
          photos = Insert(NoRows, 1, [SeedPhoto(v) EXCEPT !.owner = o])
    /\ nextPhotoId = 2
    /\ albums = NoRows
    /\ nextAlbumId = 1
    /\ m2m = NoLinks
    /\ albumPhotos = NoLinks
    /\ blobs = {FileKey(SeedUrl)}
    /\ nextBlob = 2
    /\ cache = NoRows
    /\ cacheUp = TRUE
    /\ flagged = {}
    /\ nsteps = 0
    /\ procs = NoRows
    /\ expired = {}
    /\ resp = NoResp

\* check_object_permissions(request, obj) of a request with this method.
CheckObjectPermission(a, method, pid) ==
    /\ Step
    /\ resp' = [R("check", a, pid,
                  IF HasObjectPermission(a, method, photos[pid]) THEN 200 ELSE 403)
                EXCEPT !.method = method, !.owner = photos[pid].owner]
    /\ UNCHANGED <<storeVars, blobs, nextBlob, cache, env, flagged>>

PermNext == \E a \in Actors, m \in Methods, pid \in DOMAIN photos :
               CheckObjectPermission(a, m, pid)

SpecPerm == InitPerm /\ [][PermNext]_vars

(***************************************************************************)
(* The photo delete workflows among cached reads: destroy and               *)
(* flag_inappropriate on two stored photos of different owners.             *)
(***************************************************************************)
DeleteNext ==
    \/ \E a \in Actors, p \in SpecPages : List(a, p)
    \/ \E a \in Actors, pid \in PhotoIds : Retrieve(a, pid)
    \/ \E a \in Actors : MyPhotos(a)
    \/ \E a \in Actors : Public(a)
    \/ \E a \in Actors, pid \in PhotoIds, ok \in BOOLEAN :
          pid \in DOMAIN photos /\ Destroy(a, pid, ok)
    \/ \E a \in Actors, pid \in PhotoIds, ok \in BOOLEAN :
          pid \in DOMAIN photos /\ FlagInappropriate(a, pid, ok)
    \/ \E d \in TickSteps : Tick(d)

SpecDelete == InitAlbum /\ [][DeleteNext]_vars

(***************************************************************************)
(* Properties of the cached reads.                                         *)
(***************************************************************************)
AlbumReadOps == {"album_list", "album_retrieve", "album_photos", "my_albums"}
ReadOps == PhotoReadOps \cup AlbumReadOps

\* A step that served a read successfully.
ServedRead == resp'.op \in ReadOps /\ resp'.status = 200 /\ nsteps' = nsteps + 1

\* The entry of the read's key is all the step changed in the cache.
OnlyKeyWritten ==
    /\ DOMAIN cache' = DOMAIN cache \cup {resp'.key}
    /\ \A k \in DOMAIN cache : k # resp'.key => cache'[k] = cache[k]

\* C4 as claimed: in every cached read handler a read of a key that holds an
\* entry returns it unchanged and queries the entity store not at all, and a
\* read of a key that holds none (never read, or timed out) queries the
\* entity store and stores what it returns.
C4_ReadQueriesStoreOnce ==
    [][ServedRead =>
          IF resp'.key \in DOMAIN cache
          THEN /\ resp'.payload = cache[resp'.key].value
               /\ cache' = cache
               /\ resp'.dbq = 0
          ELSE /\ resp'.dbq >= 1
               /\ resp'.key \in DOMAIN cache'
               /\ cache'[resp'.key].value = resp'.payload
               /\ OnlyKeyWritten]_vars

\* C4 amended: as above, except that the album photos handler fetches the
\* album itself (get_object) on every read before it consults the cache; it
\* does not compute the payload again on a hit.
C4_ReadComputesOnce ==
    [][ServedRead =>
          IF resp'.key \in DOMAIN cache
          THEN /\ resp'.payload = cache[resp'.key].value
               /\ cache' = cache
               /\ resp'.hit
               /\ resp'.dbq = IF resp'.op = "album_photos" THEN 1 ELSE 0
          ELSE /\ ~resp'.hit
               /\ resp'.dbq >= 1
               /\ resp'.key \in DOMAIN cache'
               /\ cache'[resp'.key].value = resp'.payload
               /\ cache'[resp'.key].ttl >= CACHE_TTL
               /\ OnlyKeyWritten]_vars

\* C4 witness: the first read of a key after its entry timed out went to the
\* entity store and stored the value again.
C4_Witness ==
    /\ resp.op \in ReadOps
    /\ resp.status = 200
    /\ resp.key \in expired
    /\ ~resp.hit
    /\ resp.dbq >= 1
    /\ resp.key \in DOMAIN cache
    /\ cache[resp.key].value = resp.payload

(***************************************************************************)
(* Properties of album membership.                                         *)
(***************************************************************************)
\* A step that served add_photo or remove_photo to the album's owner for a
\* photo of that owner.
OwnerMembershipStep ==
    /\ resp'.op \in {"add_photo", "remove_photo"}
    /\ nsteps' = nsteps + 1
    /\ resp'.target \in DOMAIN albums
    /\ resp'.actor = albums[resp'.target].owner
    /\ resp'.photo \in DOMAIN photos
    /\ photos[resp'.photo].owner = resp'.actor

\* C7: for the album owner and a photo of the owner: add_photo succeeds when
\* the photo is not linked and leaves one link; add_photo of a linked photo
\* answers "already in this album" and the link count stays one;
\* remove_photo of a linked photo succeeds and leaves no link; remove_photo
\* of an unlinked photo answers "not in this album" and changes nothing.
C7_AddRemoveMembership ==
    [][OwnerMembershipStep =>
          LET pair == <<resp'.target, resp'.photo>>
          IN IF resp'.op = "add_photo"
             THEN IF m2m[pair] = 0
                  THEN resp'.status = 200 /\ m2m'[pair] = 1
                  ELSE /\ resp'.status = 400
                       /\ resp'.err = "already"
                       /\ m2m'[pair] = 1
                       /\ UNCHANGED <<storeVars, cache, blobs>>
             ELSE IF m2m[pair] > 0
                  THEN resp'.status = 200 /\ m2m'[pair] = 0
                  ELSE /\ resp'.status = 400
                       /\ resp'.err = "not_in_album"
                       /\ UNCHANGED <<storeVars, cache, blobs>>]_vars

\* C7 witness: the owner's second add_photo of a photo of theirs, linked by a
\* first add_photo, is answered "already in this album" and one link exists.
C7_Witness ==
    /\ resp.op = "add_photo"
    /\ resp.err = "already"
    /\ resp.status = 400
    /\ resp.actor = "u1"
    /\ albums[resp.target].owner = "u1"
    /\ photos[resp.photo].owner = "u1"
    /\ m2m[<<resp.target, resp.photo>>] = 1

\* C8: of two add_photo requests for the same album and photo that both
\* passed validation, whatever their interleaving, at most one link exists
\* in the end, exactly one reports success and the other "already present".
C8_ConcurrentAddIdempotent ==
    \A p, q \in Procs :
        (/\ p # q
         /\ procs[p].pc = "done"
         /\ procs[q].pc = "done"
         /\ procs[p].album = procs[q].album
         /\ procs[p].photo = procs[q].photo
         /\ procs[p].err \notin {"denied", "not_found", "invalid"}
         /\ procs[q].err \notin {"denied", "not_found", "invalid"})
            => /\ m2m[<<procs[p].album, procs[p].photo>>] <= 1
               /\ \/ procs[p].status = 200 /\ procs[q].err = "already"
                  \/ procs[q].status = 200 /\ procs[p].err = "already"

\* C9: no request fails because the cache backend failed: no response is a
\* server error.
C9_CacheFailureSwallowed == resp.status # 500

(***************************************************************************)
(* Properties of the object permission.                                    *)
(***************************************************************************)
\* The reference policy: an admin always; a read iff the photo is public or
\* the actor is its authenticated owner; a write iff the actor is its
\* authenticated owner.
ReferencePolicy(a, method, obj) ==
    \/ a # Anon /\ Role(a) = "admin"
    \/ /\ method \in {"GET", "HEAD", "OPTIONS"}
       /\ obj.visibility = "public" \/ (a # Anon /\ a = obj.owner)
    \/ /\ method \notin {"GET", "HEAD", "OPTIONS"}
       /\ a # Anon
       /\ a = obj.owner

\* C10: the object permission check of a photo equals the reference policy
\* for every actor, visibility and method; an unauthenticated actor is never
\* allowed to write.
C10_PermissionIsReferencePolicy ==
    resp.op = "check" =>
        /\ (resp.status = 200) <=>
              ReferencePolicy(resp.actor, resp.method, photos[resp.target])
        /\ (resp.actor = Anon /\ resp.method \notin {"GET", "HEAD", "OPTIONS"})
              => resp.status = 403

\* C10 witness: a user who is not the owner was refused the read of a
\* private photo.
C10_Witness ==
    /\ resp.op = "check"
    /\ resp.method = "GET"
    /\ resp.actor = "u2"
    /\ resp.owner = "u1"
    /\ photos[resp.target].visibility = "private"
    /\ resp.status = 403

(***************************************************************************)
(* Uploads: create and update with every kind of file, among cached reads. *)
(***************************************************************************)
UploadNext ==
    \/ \E a \in Actors, p \in SpecPages : List(a, p)
    \/ \E a \in Actors : Public(a)
    \/ \E a \in {"u1", "u2"}, f \in AllFiles, ok \in BOOLEAN :
          Create(a, "t1", "public", f, ok)
    \/ \E a \in {"u1", "u2"}, pid \in PhotoIds, f \in AllFiles \cup {NoFile},
            u \in BOOLEAN :
          pid \in DOMAIN photos /\ Update(a, pid, "t1", "public", f, TRUE, u)
    \/ \E d \in TickSteps : Tick(d)

SpecUpload == Init /\ [][UploadNext]_vars

\* C19: a file larger than the configured maximum fails validation with the
\* size error and its upload fails; a create that carries such a file is
\* answered 400, transmits nothing to the object store, creates no Photo
\* row and leaves the cache as it was.
C19_OversizeNeverUploaded ==
    [][\A f \in AllFiles : f.size > MAX_UPLOAD_SIZE =>
          /\ ValidateFile(f) = "size"
          /\ ~UploadOk(f, TRUE)
          /\ \A a \in Actors, ok \in BOOLEAN :
                Create(a, "t1", "public", f, ok) =>
                   /\ resp'.status \in {400, 401}
                   /\ blobs' = blobs /\ nextBlob' = nextBlob
                   /\ photos' = photos /\ nextPhotoId' = nextPhotoId
                   /\ cache' = cache]_vars

\* C19 witness: a create with an oversize image was refused for its size
\* while the public list, which a successful create clears, stayed cached.
C19_Witness ==
    /\ resp.op = "create"
    /\ resp.status = 400
    /\ resp.err = "size"
    /\ PublicPhotosKey \in DOMAIN cache
    /\ DOMAIN photos = {1}

\* C20: a file within the size limit whose content signature is of a type
\* outside the allowed set fails validation, whatever its filename
\* extension and whatever type the client declared, and no create or update
\* that carries it stores an object or changes a Photo row.
C20_SignatureDecidesType ==
    [][\A f \in AllFiles :
          (f.size <= MAX_UPLOAD_SIZE /\ f.mime \notin ALLOWED_IMAGE_TYPES) =>
             /\ ValidateFile(f) = "mime"
             /\ ~UploadOk(f, TRUE)
             /\ \A a \in Actors, ok \in BOOLEAN, pid \in PhotoIds :
                   (\/ Create(a, "t1", "public", f, ok)
                    \/ pid \in DOMAIN photos /\ Update(a, pid, "t1", "public", f, TRUE, ok))
                      => /\ resp'.status \in {400, 401, 403, 404}
                         /\ blobs' \subseteq blobs /\ nextBlob' = nextBlob
                         /\ photos' = photos]_vars

\* C20 witness: a create that carried a bitmap named .jpg and declared
\* image/jpeg was refused for its type and nothing was stored.
C20_Witness ==
    /\ resp.op = "create"
    /\ resp.status = 400
    /\ resp.err = "mime"
    /\ DOMAIN photos = {1}
    /\ blobs = {FileKey(SeedUrl)}

(***************************************************************************)
(* Properties of the invalidation after a mutation.                        *)
(***************************************************************************)
\* A step that served a request of one of the given operations successfully.
Served(ops) ==
    resp'.op \in ops /\ resp'.status \in Success /\ nsteps' = nsteps + 1

\* C13: once an album was updated, deleted or had a photo added or removed,
\* by its owner or by an admin, none of the album's detail key and photos
\* key of the owner, the owner's album-list keys for pages 1..10 and the
\* owner's my_albums key holds a value cached before the mutation.
C13_AlbumOwnerKeysInvalidated ==
    [][Served({"album_update", "album_destroy", "add_photo", "remove_photo"}) =>
          LET aid == resp'.target
              owner == albums[aid].owner
          IN /\ AlbumDetailKey(aid, owner) \notin DOMAIN cache'
             /\ AlbumPhotosKey(aid, owner) \notin DOMAIN cache'
             /\ MyAlbumsKey(owner) \notin DOMAIN cache'
             /\ \A n \in 1..10 :
                   AlbumListKey(owner, PageStr(n)) \notin DOMAIN cache']_vars

\* C14: when an admin's album flag_inappropriate is answered, no key whose
\* content depends on the album is cached: its detail and photos keys of
\* every viewer, the owner's album-list pages and my_albums, and the admin's
\* album-list pages.
C14_FlaggedAlbumKeysAbsent ==
    [][Served({"album_flag"}) =>
          LET aid == resp'.target
              owner == albums[aid].owner
          IN /\ \A u \in Users :
                   /\ AlbumDetailKey(aid, u) \notin DOMAIN cache'
                   /\ AlbumPhotosKey(aid, u) \notin DOMAIN cache'
             /\ MyAlbumsKey(owner) \notin DOMAIN cache'
             /\ \A n \in 1..10 :
                   /\ AlbumListKey(owner, PageStr(n)) \notin DOMAIN cache'
                   /\ AlbumListKey(resp'.actor, PageStr(n)) \notin DOMAIN cache']_vars

\* C16: when a user creates, updates or deletes a photo that is public
\* before or after the request, no photo-list key for pages 1..10 of any
\* other authenticated viewer is cached when the response is returned.
C16_OtherViewersListsInvalidated ==
    [][(/\ Served(PhotoWriteOps)
        /\ LET pid == resp'.target
           IN \/ pid \in DOMAIN photos /\ photos[pid].visibility = "public"
              \/ pid \in DOMAIN photos' /\ photos'[pid].visibility = "public")
          => \A u \in Users \ {resp'.actor}, n \in 1..10 :
                PhotoListUserKey(u, PageStr(n)) \notin DOMAIN cache']_vars

\* C17: whenever an admin's photo flag_inappropriate has been answered, the
\* object store delete having succeeded or failed, whoever owned the photo
\* and whatever its visibility, the public_photos key and the anonymous
\* photo-list keys for pages 1..10 are absent from the cache.
C17_FlagClearsPublicKeys ==
    (resp.op = "flag" /\ resp.status = 200)
        => /\ resp.target \in flagged
           /\ PublicPhotosKey \notin DOMAIN cache
           /\ \A n \in 1..10 : PhotoListAnonKey(PageStr(n)) \notin DOMAIN cache

\* C17 witness: an admin's flag_inappropriate of another user's private
\* photo, whose object store delete succeeded, answered after earlier reads
\* filled the cache.
C17_Witness ==
    /\ resp.op = "flag"
    /\ resp.status = 200
    /\ ~resp.s3err
    /\ resp.actor = "admin"
    /\ resp.owner = "u1"
    /\ resp.target \notin DOMAIN photos
    /\ PhotoDetailKey(resp.target) \in DOMAIN cache
    /\ cache[PhotoDetailKey(resp.target)].value.results[1].visibility = "private"

\* C18: the visible photos of an album are all its linked photos for the
\* album's owner, and for any other actor exactly the linked photos the
\* actor may read: the public ones, the actor's own, and every one for an
\* admin.
C18_VisiblePhotosFollowPhotoRule ==
    \A aid \in DOMAIN albums, a \in Users :
        GetVisiblePhotos(aid, a) =
            IF a = albums[aid].owner THEN AlbumM2M(aid)
            ELSE {p \in AlbumM2M(aid) :
                     \/ photos[p].visibility = "public"
                     \/ photos[p].owner = a
                     \/ Role(a) = "admin"}

(***************************************************************************)
(* Photo mutations among the album views that show or count the photos.    *)
(***************************************************************************)
PhotoAlbumNext ==
    \/ \E a \in Users, aid \in DOMAIN albums : AlbumRetrieve(a, aid)
    \/ \E a \in Users, aid \in DOMAIN albums : AlbumPhotosView(a, aid)
    \/ \E a \in Users, aid \in DOMAIN albums, pid \in DOMAIN photos :
          AddPhoto(a, aid, pid)
    \/ \E a \in Users, pid \in DOMAIN photos, t \in Titles, v \in Visibilities :
          Update(a, pid, t, v, NoFile, TRUE, TRUE)
    \/ \E a \in Users, pid \in DOMAIN photos, ok \in BOOLEAN : Destroy(a, pid, ok)

SpecPhotoAlbum == Init /\ [][PhotoAlbumNext]_vars

\* C15: when a photo was updated or deleted, no album detail key and no
\* album photos key, of any viewer, of an album that links the photo is
\* cached when the response is returned.
C15_AlbumViewsOfPhotoInvalidated ==
    [][Served({"update", "destroy"}) =>
          \A aid \in DOMAIN albums, u \in Users :
              m2m[<<aid, resp'.target>>] > 0 =>
                 /\ AlbumDetailKey(aid, u) \notin DOMAIN cache'
                 /\ AlbumPhotosKey(aid, u) \notin DOMAIN cache']_vars

(***************************************************************************)
(* One mutating request and one read in flight, statement by statement.    *)
(* nsteps is the clock; each request notes when it committed, invalidated, *)
(* answered, queried the entity store and wrote the cache.                 *)
(***************************************************************************)
MutatingOps ==
    {"create", "update", "destroy", "flag", "album_create", "album_update",
     "album_destroy", "add_photo", "remove_photo", "album_flag"}

\* Mutant of WriterProgram: the response leaves before the invalidation.
WriterProgramEarlyResponse(op) ==
    IF op = "create" THEN <<"check", "upload", "commit", "respond", "invalidate">>
    ELSE IF op \in {"destroy", "flag"}
    THEN <<"check", "storage_delete", "commit", "respond", "invalidate">>
    ELSE <<"check", "commit", "respond", "invalidate">>

\* The statements of a mutating handler on its successful path, in the order
\* of the source.
WriterProgram(op) ==
    IF op = "create" THEN <<"check", "upload", "commit", "invalidate", "respond">>
    ELSE IF op \in {"destroy", "flag"}
    THEN <<"check", "storage_delete", "commit", "invalidate", "respond">>
    ELSE <<"check", "commit", "invalidate", "respond">>

IdleRequest ==
    [pc |-> 0, op |-> "", actor |-> Anon, target |-> 0, status |-> 0, key |-> NoKey,
     val |-> EmptyPayload, s3ok |-> TRUE, tCommit |-> 0, tInval |-> 0, tResp |-> 0,
     tQuery |-> 0, tSet |-> 0]

\* Permission, get_object() and validation of a mutating handler.
WriterCheck(op, a, id) ==
    CASE op = "create" -> IF HasPermission(a, "POST") THEN 200 ELSE 401
      [] op = "update" ->
            IF ~HasPermission(a, "PUT") THEN 401 ELSE GetObjectStatus(a, "PUT", id)
      [] op = "destroy" ->
            IF ~HasPermission(a, "DELETE") THEN 401 ELSE GetObjectStatus(a, "DELETE", id)
      [] op = "flag" ->
            IF ~IsAdminHasPermission(a) THEN 403
            ELSE IF id \notin GetQueryset(a) THEN 404 ELSE 200
      [] op = "album_create" -> IF IsAlbumOwnerHasPermission(a) THEN 200 ELSE 401
      [] op = "album_flag" ->
            IF ~IsAdminHasPermission(a) THEN 403
            ELSE IF id \notin AlbumGetQueryset(a) THEN 404 ELSE 200
      [] OTHER ->
            IF ~IsAlbumOwnerHasPermission(a) THEN 401
            ELSE IF AlbumGetObjectStatus(a, id) # 200 THEN AlbumGetObjectStatus(a, id)
            ELSE IF op = "add_photo" /\ (~AddPhotoValid(a, 1) \/ m2m[<<id, 1>>] > 0)
            THEN 400
            ELSE IF op = "remove_photo" /\ (~RemovePhotoValid(1) \/ m2m[<<id, 1>>] = 0)
            THEN 400
            ELSE 200

\* The request arrives and runs its first statement, the checks.
WriterBegin(op, a) ==
    LET id == IF op = "create" THEN nextPhotoId
              ELSE IF op = "album_create" THEN nextAlbumId ELSE 1
        st == WriterCheck(op, a, id)
        me == [IdleRequest EXCEPT !.op = op, !.actor = a, !.target = id]
    IN /\ procs["w"].pc = 0 /\ procs["w"].status = 0
       /\ procs' = [procs EXCEPT !["w"] =
                       IF st = 200 THEN [me EXCEPT !.pc = 2] ELSE [me EXCEPT !.status = st]]
       /\ nsteps' = nsteps + 1
       /\ UNCHANGED <<storeVars, blobs, nextBlob, cache, cacheUp, flagged, expired, resp>>

\* The mutating request runs its next statement; ok is the object store's
\* answer to a delete.
WriterStep(ok) ==
    LET me == procs["w"]
        op == me.op
        a == me.actor
        id == me.target
        stmt == WriterProgram(op)[me.pc]
        now == nsteps + 1
        url == IF id \in DOMAIN photos THEN photos[id].image_url ELSE NoUrl
        row == [owner |-> a, visibility |-> "public", title |-> "t1",
                image_url |-> UploadUrl(JpegFile, UserFolder(a), nextBlob - 1)]
        commit == stmt = "commit"
        status == IF op \in {"create", "album_create"} THEN 201
                  ELSE IF op = "album_destroy" THEN 204
                  ELSE IF op = "destroy" THEN DestroyStatus(me.s3ok)
                  ELSE 200
    IN /\ me.pc >= 2 /\ me.pc <= Len(WriterProgram(op)) /\ me.status = 0
       /\ stmt # "storage_delete" => ok
       /\ nsteps' = now
       /\ blobs' = IF stmt = "upload"
                   THEN blobs \cup {UploadPath(JpegFile, UserFolder(a), nextBlob)}
                   ELSE IF stmt = "storage_delete" THEN BlobsAfterDelete(blobs, url, ok)
                   ELSE blobs
       /\ nextBlob' = IF stmt = "upload" THEN nextBlob + 1 ELSE nextBlob
       /\ photos' = IF commit /\ op = "create" THEN Insert(photos, id, row)
                    ELSE IF commit /\ op = "update"
                    THEN [photos EXCEPT ![id].title = "t1"]
                    ELSE IF commit /\ op \in {"destroy", "flag"}
                    THEN PerformDestroy(photos, id, me.s3ok)
                    ELSE photos
       /\ nextPhotoId' = IF commit /\ op = "create" THEN nextPhotoId + 1 ELSE nextPhotoId
       /\ albums' = IF commit /\ op = "album_create"
                    THEN Insert(albums, id, [owner |-> a, title |-> "t1"])
                    ELSE IF commit /\ op = "album_update"
                    THEN [albums EXCEPT ![id].title = "t1"]
                    ELSE IF commit /\ op \in {"album_destroy", "album_flag"}
                    THEN Remove(albums, id)
                    ELSE albums
       /\ nextAlbumId' = IF commit /\ op = "album_create" THEN nextAlbumId + 1
                         ELSE nextAlbumId
       /\ m2m' = IF commit /\ op \in {"destroy", "flag"} THEN DropPhotoLinks(m2m, id)
                 ELSE IF commit /\ op \in {"album_destroy", "album_flag"}
                 THEN DropAlbumLinks(m2m, id)
                 ELSE IF commit /\ op = "add_photo" THEN M2MAdd(m2m, id, 1)
                 ELSE IF commit /\ op = "remove_photo" THEN M2MRemove(m2m, id, 1)
                 ELSE m2m
       /\ albumPhotos' = IF commit /\ op \in {"destroy", "flag"}
                         THEN DropPhotoLinks(albumPhotos, id)
                         ELSE IF commit /\ op \in {"album_destroy", "album_flag"}
                         THEN DropAlbumLinks(albumPhotos, id)
                         ELSE albumPhotos
       /\ flagged' = IF commit /\ op = "flag" THEN flagged \cup {id} ELSE flagged
       /\ cache' = IF stmt # "invalidate" THEN cache
                   ELSE IF op = "create" THEN InvalidatePhotoCaches(cache, a, 0)
                   ELSE IF op \in {"update", "destroy"}
                   THEN InvalidatePhotoCaches(cache, a, id)
                   ELSE IF op = "flag" THEN InvalidateAllCaches(cache)
                   ELSE IF op = "album_create" THEN InvalidateAlbumCaches(cache, a, 0)
                   ELSE IF op = "album_flag" THEN InvalidateAllAlbumCaches(cache)
                   ELSE InvalidateAlbumCaches(cache, a, id)
       /\ procs' = [procs EXCEPT !["w"] =
             [me EXCEPT !.pc = me.pc + 1,
                        !.s3ok = IF stmt = "storage_delete" THEN DeleteOk(url, ok) ELSE @,
                        !.tCommit = IF commit THEN now ELSE @,
                        !.tInval = IF stmt = "invalidate" THEN now ELSE @,
                        !.tResp = IF stmt = "respond" THEN now ELSE @,
                        !.status = IF stmt = "respond" THEN status ELSE @]]
       /\ resp' = IF stmt = "respond" THEN R(op, a, id, status) ELSE resp
       /\ UNCHANGED <<cacheUp, expired>>

\* The cache key of a read request.
ReadKey(op, a, id) ==
    CASE op = "retrieve" -> PhotoDetailKey(id)
      [] op = "list" -> IF IsAuthenticated(a) THEN PhotoListUserKey(a, PageKeyPart(""))
                        ELSE PhotoListAnonKey(PageKeyPart(""))
      [] op = "my_photos" -> MyPhotosKey(a)
      [] op = "public" -> PublicPhotosKey
      [] op = "my_albums" -> MyAlbumsKey(a)
      [] OTHER -> AlbumDetailKey(id, a)

\* What a read request computes from the entity store.
ReadValue(op, a, id) ==
    CASE op = "retrieve" -> Payload(<<PhotoData(id)>>)
      [] op = "list" ->
            [count |-> Cardinality(GetQueryset(a)),
             results |-> PhotoList(PageOf(DescSeq(GetQueryset(a)), ""))]
      [] op = "my_photos" ->
            Payload(PhotoList(DescSeq({p \in DOMAIN photos : photos[p].owner = a})))
      [] op = "public" ->
            Payload(PhotoList(DescSeq({p \in DOMAIN photos :
                                          photos[p].visibility = "public"})))
      [] op = "my_albums" ->
            Payload(AlbumList(DescSeq({x \in DOMAIN albums : albums[x].owner = a})))
      [] OTHER -> Payload(<<AlbumDetailData(id, a)>>)

\* The read request arrives: the view's permission, then cache.get.
ReaderBegin(op, a) ==
    LET key == ReadKey(op, a, 1)
        allowed == CASE op \in {"my_photos", "my_albums"} -> IsAuthenticated(a)
                     [] op = "album_retrieve" -> IsAlbumOwnerHasPermission(a)
                     [] OTHER -> HasPermission(a, "GET")
        me == [IdleRequest EXCEPT !.op = op, !.actor = a, !.target = 1, !.key = key]
    IN /\ procs["rd"].pc = 0 /\ procs["rd"].status = 0
       /\ procs' = [procs EXCEPT !["rd"] =
                       IF ~allowed THEN [me EXCEPT !.status = 401]
                       ELSE IF Cached(key) THEN [me EXCEPT !.pc = 4, !.val = cache[key].value]
                       ELSE [me EXCEPT !.pc = 2]]
       /\ nsteps' = nsteps + 1
       /\ UNCHANGED <<storeVars, blobs, nextBlob, cache, cacheUp, flagged, expired, resp>>

\* The read request runs its next statement: the entity-store query (2),
\* cache.set (3), the response (4).
ReaderStep ==
    LET me == procs["rd"]
        op == me.op
        a == me.actor
        id == me.target
        now == nsteps + 1
        st == IF op = "retrieve" THEN GetObjectStatus(a, "GET", id)
              ELSE IF op = "album_retrieve" THEN AlbumGetObjectStatus(a, id)
              ELSE 200
        timeout == IF op = "retrieve" /\ me.val.results[1].visibility = "public"
                   THEN CACHE_TTL_LONG
                   ELSE IF op = "public" THEN CACHE_TTL * 2 ELSE CACHE_TTL
    IN /\ me.pc >= 2 /\ me.status = 0
       /\ nsteps' = now
       /\ procs' = [procs EXCEPT !["rd"] =
             IF me.pc = 2
             THEN IF st # 200 THEN [me EXCEPT !.status = st]
                  ELSE [me EXCEPT !.pc = 3, !.val = ReadValue(op, a, id), !.tQuery = now]
             ELSE IF me.pc = 3 THEN [me EXCEPT !.pc = 4, !.tSet = now]
             ELSE [me EXCEPT !.status = 200, !.tResp = now]]
       /\ cache' = IF me.pc = 3 THEN CacheSet(cache, me.key, me.val, timeout) ELSE cache
       /\ resp' = IF me.pc = 4
                  THEN [R(op, a, id, 200) EXCEPT !.key = me.key, !.payload = me.val]
                  ELSE resp
       /\ UNCHANGED <<storeVars, blobs, nextBlob, cacheUp, flagged, expired>>

InitSteps ==
    /\ \E v \in Visibilities : photos = Insert(NoRows, 1, SeedPhoto(v))
    /\ nextPhotoId = 2
    /\ albums = Insert(NoRows, 1, SeedAlbum)
    /\ nextAlbumId = 2
    /\ \E n \in {0, 1} : m2m = [NoLinks EXCEPT ![<<1, 1>>] = n]
    /\ albumPhotos = NoLinks
    /\ blobs = {FileKey(SeedUrl)}
    /\ nextBlob = 2
    /\ cache = NoRows
    /\ cacheUp = TRUE
    /\ flagged = {}
    /\ nsteps = 0
    /\ procs = [p \in {"w", "rd"} |-> IdleRequest]
    /\ expired = {}
    /\ resp = NoResp

StepsNext ==
    \/ \E op \in MutatingOps, a \in Users : WriterBegin(op, a)
    \/ \E ok \in BOOLEAN : WriterStep(ok)
    \/ \E op \in {"retrieve", "list", "my_photos", "public", "my_albums",
                  "album_retrieve"}, a \in Actors : ReaderBegin(op, a)
    \/ ReaderStep

SpecSteps == InitSteps /\ [][StepsNext]_vars

\* C11: a mutating request that has answered with success committed its
\* entity-store mutation first, ran its cache invalidation after that and
\* answered only when the invalidation had finished; a request answered
\* with an error committed nothing.
C11_MutateInvalidateRespond ==
    LET w == procs["w"]
    IN /\ w.tResp > 0 =>
             /\ w.status \in Success
             /\ 0 < w.tCommit
             /\ w.tCommit < w.tInval
             /\ w.tInval < w.tResp
       /\ (w.status # 0 /\ w.status \notin Success) => (w.tCommit = 0 /\ w.tInval = 0)

\* C11 witness: an album destroy by an admin has been answered 204 with the
\* album gone from the entity store.
C11_Witness ==
    /\ procs["w"].op = "album_destroy"
    /\ procs["w"].actor = "admin"
    /\ procs["w"].status = 204
    /\ procs["w"].tResp > 0
    /\ 1 \notin DOMAIN albums

\* The keys the mutating request in flight invalidates.
WriterKeys ==
    LET w == procs["w"]
    IN IF w.op = "create" THEN InvalidatePhotoKeys(w.actor, 0)
       ELSE IF w.op \in {"update", "destroy"} THEN InvalidatePhotoKeys(w.actor, w.target)
       ELSE IF w.op = "flag" THEN InvalidateAllKeys
       ELSE IF w.op = "album_create" THEN InvalidateAlbumKeys(w.actor, 0)
       ELSE IF w.op = "album_flag" THEN {}
       ELSE InvalidateAlbumKeys(w.actor, w.target)

\* The read's key is one the mutation invalidates and, the mutation having
\* been answered, holds something else than the entity store now gives.
StaleAfterResponse ==
    LET r == procs["rd"]
        gone == \/ r.op = "retrieve" /\ r.target \notin DOMAIN photos
                \/ r.op = "album_retrieve" /\ r.target \notin DOMAIN albums
    IN /\ procs["w"].tResp > 0
       /\ r.key \in WriterKeys
       /\ r.key \in DOMAIN cache
       /\ gone \/ cache[r.key].value # ReadValue(r.op, r.actor, r.target)

\* C12: with one mutating request and one read of a key the mutation
\* invalidates, that key holds pre-mutation data after the mutation was
\* answered only if the read queried the entity store before the mutation
\* committed and wrote the cache after the invalidation ran; a read that
\* queries after the commit, or does not overlap the mutation, leaves none.
C12_StaleOnlyByRace ==
    StaleAfterResponse =>
        /\ procs["rd"].tQuery > 0
        /\ procs["rd"].tQuery < procs["w"].tCommit
        /\ procs["rd"].tSet > procs["w"].tInval

\* C12 witness: the interleaving is reachable: a retrieve queried the photo
\* before an update committed, wrote the cache after the update's
\* invalidation, and the detail key holds the old title after both answered.
C12_Witness ==
    /\ StaleAfterResponse
    /\ procs["w"].op = "update"
    /\ procs["rd"].op = "retrieve"
    /\ procs["rd"].tResp > 0
    /\ procs["rd"].tQuery < procs["w"].tCommit
    /\ procs["rd"].tSet > procs["w"].tInval
    /\ cache[PhotoDetailKey(1)].value.results[1].title = "t0"
    /\ photos[1].title = "t1"

(***************************************************************************)
(* The object store client used on its own: upload into the folder of a    *)
(* user, delete and file_exists on a url.  A username is any string of     *)
(* letters, digits and . @ + - _ (AbstractUser), so it may spell the       *)
(* configured domain.                                                      *)
(***************************************************************************)
Usernames == Users \cup {S3Domain}

\* upload(file, filename, folder="users/<username>")
StorageUpload(user, file, s3ok) ==
    LET path == UploadPath(file, UserFolder(user), nextBlob)
    IN /\ Step
       /\ nextBlob <= MaxBlobs
       /\ IF UploadOk(file, s3ok)
          THEN /\ blobs' = blobs \cup {path}
               /\ nextBlob' = nextBlob + 1
               /\ resp' = [R("upload", user, 0, 200) EXCEPT
                              !.payload = Payload(<<[image_url |-> PublicUrl(path),
                                                     file |-> file]>>)]
          ELSE /\ resp' = [R("upload", user, 0, 400) EXCEPT
                              !.err = UploadErr(file, s3ok),
                              !.payload = Payload(<<[image_url |-> NoUrl,
                                                     file |-> file]>>)]
               /\ UNCHANGED <<blobs, nextBlob>>
       /\ UNCHANGED <<storeVars, cache, env, flagged>>

\* delete(file_url)
StorageDelete(url, s3ok) ==
    /\ Step
    /\ blobs' = BlobsAfterDelete(blobs, url, s3ok)
    /\ resp' = [R("delete", Anon, 0, IF DeleteOk(url, s3ok) THEN 200 ELSE 400) EXCEPT
                   !.payload = Payload(<<[image_url |-> url]>>)]
    /\ UNCHANGED <<storeVars, nextBlob, cache, env, flagged>>

\* file_exists(file_url)
StorageFileExists(url, s3ok) ==
    /\ Step
    /\ resp' = [R("file_exists", Anon, 0, 200) EXCEPT
                   !.hit = FileExists(url, s3ok),
                   !.payload = Payload(<<[image_url |-> url]>>)]
    /\ UNCHANGED <<storeVars, blobs, nextBlob, cache, env, flagged>>

\* The urls upload() can have returned.
UploadedUrls ==
    {UploadUrl(JpegFile, UserFolder(u), n) : u \in Usernames, n \in 1..MaxBlobs}

SpecStorage ==
    Init /\ [][\/ \E u \in Usernames, f \in AllFiles, ok \in BOOLEAN :
                     StorageUpload(u, f, ok)
               \/ \E url \in UploadedUrls, ok \in BOOLEAN : StorageDelete(url, ok)
               \/ \E url \in UploadedUrls, ok \in BOOLEAN : StorageFileExists(url, ok)]_vars

\* C21: with a backend that answers, file_exists on the url a successful
\* upload returned is true and the key delete and file_exists derive from
\* that url is the key upload stored under; after a successful delete of the
\* url, file_exists on it is false.
C21_UploadedUrlRoundTrip ==
    LET url == resp.payload.results[1].image_url
    IN /\ (resp.op = "upload" /\ resp.status = 200) =>
              /\ FileExists(url, TRUE)
              /\ PublicUrl(FileKey(url)) = url
       /\ (resp.op = "delete" /\ resp.status = 200) => ~FileExists(url, TRUE)

\* C22: a cached read that ends in an error (entity not found, access denied
\* by the object-permission check, authentication required) leaves the cache
\* as it was: no entry added, none changed.
C22_FailedReadLeavesCache ==
    [][(resp'.op \in ReadOps /\ resp'.status \notin Success /\ nsteps' = nsteps + 1)
          => cache' = cache]_vars

\* C22 witness: u2's retrieve of u1's private photo went to the entity
\* store, found no photo in u2's queryset and was answered 404, and the
\* photo's detail key holds no entry while other keys do.
C22_Witness ==
    /\ resp.op = "retrieve"
    /\ resp.actor = "u2"
    /\ resp.status = 404
    /\ resp.dbq = 1
    /\ resp.target \in DOMAIN photos
    /\ resp.key \notin DOMAIN cache
    /\ DOMAIN cache # {}

\* C23: a cache entry is created with the long TTL exactly when it is the
\* detail view of a photo that is public when the entry is written; every
\* list entry (per-user, anonymous, my_photos, public list, album list,
\* my_albums) and every private-photo or album detail entry is created with
\* the short TTL.
C23_TtlPolicy ==
    [][\A k \in DOMAIN cache' \ DOMAIN cache :
          cache'[k].ttl =
              IF k = PhotoDetailKey(k.id) /\ k.id \in DOMAIN photos
                    /\ photos[k.id].visibility = "public"
              THEN CACHE_TTL_LONG
              ELSE CACHE_TTL]_vars

\* The urls the uploads completed so far have returned: one for every uuid
\* token handed out, in the folder of the uploading user, with the
\* extension of a file that passes validation.
ReturnedUrls ==
    {UploadUrl(f, UserFolder(u), n) :
        f \in {g \in AllFiles : ValidateFile(g) = "ok"}, u \in Users,
        n \in 1..(nextBlob - 1)}

\* C24: every Photo row holds a non-null image url that a completed upload
\* returned; a row gets a new image url only in the step that completed the
\* upload of that url, and an update without a new image leaves the image
\* url as it was.
C24_ImageUrlFromUpload ==
    /\ [](\A pid \in DOMAIN photos :
             photos[pid].image_url # NoUrl /\ photos[pid].image_url \in ReturnedUrls)
    /\ [][\A pid \in DOMAIN photos' :
             (pid \notin DOMAIN photos \/ photos'[pid].image_url # photos[pid].image_url)
                => /\ nextBlob' = nextBlob + 1
                   /\ FileKey(photos'[pid].image_url) \in blobs' \ blobs]_vars

\* C24 witness: an update without a new image was answered 200, the title
\* changed and the row still holds the url of the first upload.
C24_Witness ==
    /\ resp.op = "update"
    /\ resp.status = 200
    /\ nextBlob = 2
    /\ photos[resp.target].title = "t1"
    /\ photos[resp.target].image_url = SeedUrl

\* The checks of validate_file a file fails, and their order.
FailedChecks(f) ==
    {c \in {"size", "mime", "ext"} :
        \/ c = "size" /\ f.size > MAX_UPLOAD_SIZE
        \/ c = "mime" /\ f.mime \notin ALLOWED_IMAGE_TYPES
        \/ c = "ext" /\ f.ext \notin ALLOWED_IMAGE_EXTENSIONS}
CheckRank(c) == CASE c = "size" -> 1 [] c = "mime" -> 2 [] c = "ext" -> 3

\* C25: validate_file checks size, then content type, then extension, and
\* the reason it reports is that of the first check the file fails; it
\* passes only a file that fails none.  Seen at upload, which reports the
\* reason of validate_file and stores nothing when there is one.
C25_FirstFailingCheckReported ==
    [][\A u \in Usernames, f \in AllFiles, ok \in BOOLEAN :
          StorageUpload(u, f, ok) =>
              IF FailedChecks(f) = {}
              THEN ValidateFile(f) = "ok" /\ resp'.err = (IF ok THEN "" ELSE "s3")
              ELSE /\ resp'.status = 400
                   /\ resp'.err \in FailedChecks(f)
                   /\ \A c \in FailedChecks(f) : CheckRank(resp'.err) <= CheckRank(c)
                   /\ blobs' = blobs]_vars

\* C25 witness: a file that fails all three checks was refused for its
\* size, and one that fails the type and the extension can be refused for
\* its type.
C25_Witness ==
    /\ resp.op = "upload"
    /\ resp.status = 400
    /\ resp.payload.results[1].file = BigPdfFile
    /\ FailedChecks(BigPdfFile) = {"size", "mime", "ext"}
    /\ resp.err = "size"
    /\ FailedChecks(BmpFile) = {"mime", "ext"}
    /\ ValidateFile(BmpFile) = "mime"

(***************************************************************************)
(* The write handlers of both services under every actor, with the photo   *)
(* and album detail reads that fill the cache.                             *)
(***************************************************************************)
WriteNext ==
    \/ \E a \in Actors, pid \in PhotoIds : Retrieve(a, pid)
    \/ \E a \in Actors, aid \in AlbumIds : AlbumRetrieve(a, aid)
    \/ \E a \in Actors, pid \in DOMAIN photos, f \in {NoFile, JpegFile} :
          Update(a, pid, "t1", "public", f, TRUE, TRUE)
    \/ \E a \in Actors, pid \in PhotoIds : Destroy(a, pid, TRUE)
    \/ \E a \in Actors, pid \in PhotoIds : FlagInappropriate(a, pid, TRUE)
    \/ \E a \in Actors, aid \in AlbumIds : AlbumUpdate(a, aid, "t1")
    \/ \E a \in Actors, aid \in AlbumIds : AlbumDestroy(a, aid)
    \/ \E a \in Actors, aid \in AlbumIds, pid \in PhotoIds : AddPhoto(a, aid, pid)
    \/ \E a \in Actors, aid \in AlbumIds, pid \in PhotoIds : RemovePhoto(a, aid, pid)
    \/ \E a \in Actors, aid \in AlbumIds : AlbumFlagInappropriate(a, aid)

SpecWrites == Init /\ [][WriteNext]_vars

\* The request answered by this step came from an actor who is not an admin
\* and does not own the photo (album) it names, or named an admin-only
\* action as a non-admin.
NotEntitled ==
    LET a == resp'.actor
        t == resp'.target
        plain == a = Anon \/ Role(a) # "admin"
    IN /\ nsteps' = nsteps + 1
       /\ plain
       /\ \/ resp'.op \in {"flag", "album_flag"}
          \/ /\ resp'.op \in {"update", "destroy"}
             /\ t \in DOMAIN photos => photos[t].owner # a
          \/ /\ resp'.op \in {"album_update", "album_destroy", "add_photo", "remove_photo"}
             /\ t \in DOMAIN albums => albums[t].owner # a

\* C26: a write request by an actor who is neither the owner of the entity
\* nor an admin, and a flag_inappropriate request by a non-admin, is refused
\* before anything is changed: the entity store, the object store and the
\* cache are the same after the request as before it.
C26_RefusedWriteChangesNothing ==
    [][NotEntitled =>
          /\ resp'.status \in {401, 403, 404}
          /\ UNCHANGED <<storeVars, blobs, nextBlob, cache, flagged>>]_vars

\* C26 witness: u2's destroy of u1's public photo was refused with 403 while
\* the photo, its object and its cached detail are all still there.
C26_Witness ==
    /\ resp.op = "destroy"
    /\ resp.actor = "u2"
    /\ resp.status = 403
    /\ 1 \in DOMAIN photos
    /\ photos[1].owner = "u1"
    /\ FileKey(photos[1].image_url) \in blobs
    /\ PhotoDetailKey(1) \in DOMAIN cache

\* C27: an album detail or album photos view computed from the entity store
\* lists, for the album's owner, exactly the photos that add_photo put into
\* the album and remove_photo has not taken out, and the detail view's
\* photo_count is the number of entries of its photos list for every viewer.
C27_ViewsListMembers ==
    (resp.op \in {"album_retrieve", "album_photos"} /\ resp.status = 200 /\ ~resp.hit) =>
        LET aid == resp.target
            rows == IF resp.op = "album_retrieve"
                    THEN resp.payload.results[1].photos
                    ELSE resp.payload.results
            listed == {rows[i].id : i \in 1..Len(rows)}
        IN /\ resp.op = "album_retrieve" =>
                 resp.payload.results[1].photo_count = Len(rows)
           /\ resp.actor = albums[aid].owner =>
                 listed = {pid \in PhotoIds : m2m[<<aid, pid>>] > 0}

\* The photos the object-permission check lets an actor read.
Readable(a) ==
    {p \in DOMAIN photos : HasObjectPermission(a, "GET", photos[p])}

\* C28: in every state of the entity store and for every actor, the photos
\* the photo list is drawn from are exactly the photos the object-permission
\* read check allows that actor; a list page computed from the store counts
\* all of them and shows none that the actor could not retrieve.
C28_ListIsReadableSet ==
    /\ \A a \in Actors : GetQueryset(a) = Readable(a)
    /\ (resp.op = "list" /\ resp.status = 200 /\ ~resp.hit) =>
          /\ resp.payload.count = Cardinality(Readable(resp.actor))
          /\ \A i \in 1..Len(resp.payload.results) :
                resp.payload.results[i].id \in Readable(resp.actor)

\* C28 witness: u2 was served a list computed from the store that counts
\* u2's own photo and leaves out u1's private one.
C28_Witness ==
    /\ resp.op = "list"
    /\ resp.actor = "u2"
    /\ resp.status = 200
    /\ ~resp.hit
    /\ resp.payload.count = 1
    /\ Cardinality(DOMAIN photos) = 2
    /\ photos[1].visibility = "private"
    /\ photos[2].owner = "u2"

(***************************************************************************)
(* The paginated lists under every spelling of the page parameter, with    *)
(* the photo and album creations that invalidate them.                     *)
(***************************************************************************)
SpecPaging ==
    Init /\ [][\/ \E a \in Actors, p \in PageParams : List(a, p)
               \/ \E a \in Actors, p \in PageParams : AlbumListView(a, p)
               \/ \E a \in {"u1", "u2"} : Create(a, "t1", "public", JpegFile, TRUE)
               \/ \E a \in {"u1", "u2"} : AlbumCreate(a, "t1")
               \/ \E d \in TickSteps : Tick(d)]_vars

\* C29: every list cache key that holds the payload of one of the pages
\* 1..10 of a user's (or the anonymous) list is among the keys the
\* invalidation helper of that list deletes; two requests for the same page
\* of the same actor's list use one key, however the page is spelled.
C29_ListKeysInsideWindow ==
    \A k \in DOMAIN cache :
        PageNumber(k.page) \in 1..INVALIDATED_PAGES =>
            /\ k.kind = "photos_list_user" => k \in InvalidatePhotoKeys(k.user, 0)
            /\ k.kind = "photos_list_anon" => \A u \in Users : k \in InvalidatePhotoKeys(u, 0)
            /\ k.kind = "albums_list_user" => k \in InvalidateAlbumKeys(k.user, 0)

(***************************************************************************)
(* Bounded staleness.  u1 creates, updates and deletes photos (finitely     *)
(* often);                                                                 *)
(* u2 keeps reading the photo list and time keeps passing:                  *)
(* list requests and passages of time are not counted as steps here, and   *)
(* weak fairness on them is the assumption that time advances and that     *)
(* each list is read again.                                                *)
(***************************************************************************)
LiveReaders == {"u2"}
ListAgain(a, p) == ListRequest(a, p) /\ UNCHANGED nsteps
TimePasses == \E d \in TickSteps : Expire(d) /\ UNCHANGED nsteps

SpecLive ==
    /\ Init
    /\ [][\/ \E a \in LiveReaders, p \in SpecPages : ListAgain(a, p)
          \/ TimePasses
          \/ Public(Anon)
          \/ Create("u1", "t1", "public", JpegFile, TRUE)
          \/ \E pid \in DOMAIN photos, v \in Visibilities :
                Update("u1", pid, "t1", v, NoFile, TRUE, TRUE)
          \/ \E pid \in DOMAIN photos : Destroy("u1", pid, TRUE)]_vars
    /\ WF_vars(TimePasses)
    /\ \A a \in LiveReaders, p \in SpecPages : WF_vars(ListAgain(a, p))

\* What the photo list of actor a, page p, is in the current entity store,
\* and the key it is cached under.
ListKey(a, p) ==
    IF IsAuthenticated(a) THEN PhotoListUserKey(a, PageKeyPart(p))
    ELSE PhotoListAnonKey(PageKeyPart(p))
ListNow(a, p) ==
    LET ids == DescSeq(GetQueryset(a))
    IN [count |-> Len(ids), results |-> PhotoList(PageOf(ids, p))]
StaleList(a, p) ==
    ListKey(a, p) \in DOMAIN cache /\ cache[ListKey(a, p)].value # ListNow(a, p)
FreshList(a, p) ==
    ListKey(a, p) \in DOMAIN cache /\ cache[ListKey(a, p)].value = ListNow(a, p)

\* No step prolongs the life of an entry: an entry that survives a step
\* keeps its value and its remaining time does not grow.
NoEntryProlonged ==
    \A k \in DOMAIN cache \cap DOMAIN cache' :
        /\ cache'[k].value = cache[k].value
        /\ cache'[k].ttl <= cache[k].ttl

\* The page p of a's list is no longer there and its key holds nothing.
PageGone(a, p) ==
    /\ ListKey(a, p) \notin DOMAIN cache
    /\ ~ValidPage(p, Cardinality(GetQueryset(a)))

====
